---- MODULE Spec2Model ----
(***************************************************************************)
(* bcfeed: the release cache over date-partitioned Gmail scrapes.          *)
(*                                                                         *)
(* The model covers src/bcfeed/session_store.py (the three JSON stores and *)
(* the operations on them), src/bcfeed/util.py (dedupe_by_url) and         *)
(* src/pipeline.py (gather_releases_with_cache, the populate call, with    *)
(* its _dedupe_by_date and construct_release_list).                        *)
(*                                                                         *)
(* A calendar date is a day number.  A date *string* is a record           *)
(* [fmt, day]: "iso" is YYYY-MM-DD, "slash" is YYYY/MM/DD, "bad" is any    *)
(* text neither strptime format accepts.  The release cache file is a      *)
(* function from ISO key to a list of releases (an absent key and an empty *)
(* list are the same to every reader: `cache.get(key, [])`, `if            *)
(* releases_for_day:`); the two date-set files are sorted lists of ISO     *)
(* strings, as _save_date_set writes them.                                 *)
(***************************************************************************)
EXTENDS Integers, Sequences, FiniteSets, TLC

\* ------------------------------------------------------------------ bounds
MaxDay == 3
MaxIds == 2
MaxBucket == 2
MaxLimit == 1
MaxCalls == 2
FirstToday == 2
MaxRequests == 2
MaxLog == 1
MaxPureDay == 5
MaxPureLen == 4
MaxItems == 3
MaxUrlItems == 4
MaxItemId == 2

Days == 1..MaxDay

\* None, as the result of _to_date on an unparseable value.
NoDay == 0

\* A release URL; NoUrl is None (falsy in `if url`).
URLs == {"a", "b"}
NoUrl == "none"

\* --------------------------------------------------------- date strings
\* datetime.date.isoformat(): the cache key and the date-set file entries.
isoformat(d) == [fmt |-> "iso", day |-> d]

\* strftime("%Y/%m/%d"): the date construct_release_list gives a release.
strftime_slash(d) == [fmt |-> "slash", day |-> d]

BadDate == [fmt |-> "bad", day |-> NoDay]

IsoKeys == {isoformat(d) : d \in Days}

DateStrings == IsoKeys \cup {strftime_slash(d) : d \in Days} \cup {BadDate}

\* session_store._to_date: "%Y-%m-%d" then "%Y/%m/%d", else None.
_to_date(val) ==
  IF val.fmt = "iso" THEN val.day
  ELSE IF val.fmt = "slash" THEN val.day
  ELSE NoDay

\* pipeline._parse_date: "%Y/%m/%d" then "%Y-%m-%d"; NoDay stands for the
\* ValueError it raises.
_parse_date(date_text) ==
  IF date_text.fmt = "slash" THEN date_text.day
  ELSE IF date_text.fmt = "iso" THEN date_text.day
  ELSE NoDay

\* util.construct_release, cut to the two fields the cache engine reads.
construct_release(release_url, date) == [url |-> release_url, date |-> date]

Releases == [url : URLs \cup {NoUrl}, date : DateStrings]

\* ------------------------------------------------------------ sequences
RECURSIVE SeqToSet(_)
SeqToSet(s) == IF s = <<>> THEN {} ELSE {Head(s)} \cup SeqToSet(Tail(s))

Min(S) == CHOOSE x \in S : \A y \in S : x <= y

\* sorted(set) of day numbers, ascending.
RECURSIVE sorted(_)
sorted(S) == IF S = {} THEN <<>> ELSE <<Min(S)>> \o sorted(S \ {Min(S)})

\* The inclusive range start..end as the `while cursor <= end` loops walk it.
DateRange(start, end) == {d \in Days : start <= d /\ d <= end}

\* ------------------------------------------------------- dedupe (util.py)
\* util.dedupe_by_url: first occurrence of each truthy URL wins; items
\* without a URL all pass through.
\* Mutant: a missing URL is remembered like any other, so a second item
\* without a URL is dropped.
RECURSIVE dedupe_loop_urlless_once(_, _)
dedupe_loop_urlless_once(items, seen) ==
  IF items = <<>> THEN <<>>
  ELSE LET item == Head(items)
           url == item.url
       IN IF url \in seen
          THEN dedupe_loop_urlless_once(Tail(items), seen)
          ELSE <<item>> \o dedupe_loop_urlless_once(Tail(items), seen \cup {url})

\* Mutant: the last occurrence of a URL wins.
RECURSIVE dedupe_loop_keep_last(_, _)
dedupe_loop_keep_last(items, seen) ==
  IF items = <<>> THEN <<>>
  ELSE LET item == Head(items)
           url == item.url
           rest == Tail(items)
       IN IF url # NoUrl /\ \E i \in 1..Len(rest) : rest[i].url = url
          THEN dedupe_loop_keep_last(rest, seen)
          ELSE <<item>> \o dedupe_loop_keep_last(rest, seen)

RECURSIVE dedupe_loop(_, _)
dedupe_loop(items, seen) ==
  IF items = <<>> THEN <<>>
  ELSE LET item == Head(items)
           url == item.url
       IN IF url # NoUrl /\ url \in seen
          THEN dedupe_loop(Tail(items), seen)
          ELSE <<item>> \o dedupe_loop(Tail(items),
                                       IF url # NoUrl THEN seen \cup {url} ELSE seen)

\* Mutant: nothing is dropped.
dedupe_by_url_keep_all(items) == items

dedupe_by_url(items) == dedupe_loop(items, {})

\* pipeline._dedupe_by_date.  `kept` is a Python dict: a URL keeps the
\* position of its first insertion, a replacement overwrites the value in
\* place.  It is modelled as the list of URLs in insertion order (order) and
\* the function from URL to the kept item (val).
\* Mutant: the comparisons are strict, so among equal dates the item seen
\* first stays.
RECURSIVE dedupe_by_date_loop_strict(_, _, _, _, _)
dedupe_by_date_loop_strict(items, keep, order, val, without_url) ==
  IF items = <<>> THEN [order |-> order, val |-> val, without_url |-> without_url]
  ELSE LET item == Head(items)
           url == item.url
       IN IF url = NoUrl
          THEN dedupe_by_date_loop_strict(Tail(items), keep, order, val,
                                          Append(without_url, item))
          ELSE IF url \notin SeqToSet(order)
          THEN dedupe_by_date_loop_strict(Tail(items), keep, Append(order, url),
                                          [val EXCEPT ![url] = item], without_url)
          ELSE LET date == _parse_date(item.date)
                   existing_date == _parse_date(val[url].date)
                   replace == IF keep = "last" THEN date > existing_date
                              ELSE date < existing_date
               IN dedupe_by_date_loop_strict(Tail(items), keep, order,
                                             IF replace THEN [val EXCEPT ![url] = item]
                                             ELSE val,
                                             without_url)

RECURSIVE dedupe_by_date_loop(_, _, _, _, _)
dedupe_by_date_loop(items, keep, order, val, without_url) ==
  IF items = <<>> THEN [order |-> order, val |-> val, without_url |-> without_url]
  ELSE LET item == Head(items)
           url == item.url
       IN IF url = NoUrl
          THEN dedupe_by_date_loop(Tail(items), keep, order, val,
                                   Append(without_url, item))
          ELSE IF url \notin SeqToSet(order)
          THEN dedupe_by_date_loop(Tail(items), keep, Append(order, url),
                                   [val EXCEPT ![url] = item], without_url)
          ELSE LET date == _parse_date(item.date)
                   existing_date == _parse_date(val[url].date)
                   replace == IF keep = "last" THEN date >= existing_date
                              ELSE date <= existing_date
               IN dedupe_by_date_loop(Tail(items), keep, order,
                                      IF replace THEN [val EXCEPT ![url] = item] ELSE val,
                                      without_url)

_dedupe_by_date(items, keep) ==
  LET r == dedupe_by_date_loop(items, keep, <<>>,
                               [u \in URLs |-> construct_release(NoUrl, BadDate)], <<>>)
  IN [i \in 1..Len(r.order) |-> r.val[r.order[i]]] \o r.without_url

\* util.dedupe_by_date, the same loop behind the check of `keep`
\* (lines 82-83): raised is the ValueError, items the list returned.
dedupe_by_date(items, keep) ==
  IF keep \notin {"first", "last"}
  THEN [raised |-> TRUE, items |-> <<>>]
  ELSE [raised |-> FALSE, items |-> _dedupe_by_date(items, keep)]

\* ------------------------------------------------ the persistent store
\* session_store._load_date_set: every entry _to_date accepts.
_load_date_set(file) ==
  {_to_date(file[i]) : i \in 1..Len(file)} \ {NoDay}

\* session_store._save_date_set: the file's new content, sorted ISO strings.
_save_date_set(dates, drop_today, td) ==
  LET kept == IF drop_today /\ td \in dates THEN dates \ {td} ELSE dates
      payload == sorted(kept)
  IN [i \in 1..Len(payload) |-> isoformat(payload[i])]

\* Mutant: the scrape-status file is written without dropping today.
_save_scrape_status_keep_today(dates, td) == _save_date_set(dates, FALSE, td)

_save_scrape_status(dates, td) == _save_date_set(dates, TRUE, td)

_save_empty_dates(dates, td) == _save_date_set(dates, FALSE, td)

\* session_store.mark_dates_scraped: the scrape-status file afterwards.
mark_dates_scraped(file, dates, exclude_today, td) ==
  LET scraped == _load_date_set(file)
      added == {day \in dates : ~(exclude_today /\ day = td)}
  IN _save_scrape_status(scraped \cup added, td)

\* Mutant: the loop stops one day early (`while cursor < end`).
mark_date_range_scraped_end_exclusive(file, start, end, exclude_today, td) ==
  IF start > end THEN file
  ELSE LET scraped == _load_date_set(file)
           added == {cursor \in DateRange(start, end - 1) : ~(exclude_today /\ cursor = td)}
       IN _save_scrape_status(scraped \cup added, td)

\* session_store.mark_date_range_scraped; start > end returns without a write.
mark_date_range_scraped(file, start, end, exclude_today, td) ==
  IF start > end THEN file
  ELSE LET scraped == _load_date_set(file)
           added == {cursor \in DateRange(start, end) : ~(exclude_today /\ cursor = td)}
       IN _save_scrape_status(scraped \cup added, td)

\* session_store.mark_dates_not_scraped.
mark_dates_not_scraped(file, dates, td) ==
  _save_scrape_status(_load_date_set(file) \ dates, td)

\* Mutant: the range is recorded as empty but not marked scraped.
persist_empty_date_range_unscraped(empty, scrape, start, end, exclude_today, td) ==
  IF start > end THEN [empty |-> empty, scrape |-> scrape]
  ELSE LET empty_dates == _load_date_set(empty)
           added == {cursor \in DateRange(start, end) : ~(exclude_today /\ cursor = td)}
       IN [empty |-> _save_empty_dates(empty_dates \cup added, td),
           scrape |-> scrape]

\* session_store.persist_empty_date_range: both date-set files afterwards.
persist_empty_date_range(empty, scrape, start, end, exclude_today, td) ==
  IF start > end THEN [empty |-> empty, scrape |-> scrape]
  ELSE LET empty_dates == _load_date_set(empty)
           added == {cursor \in DateRange(start, end) : ~(exclude_today /\ cursor = td)}
       IN [empty |-> _save_empty_dates(empty_dates \cup added, td),
           scrape |-> mark_date_range_scraped(scrape, start, end, exclude_today, td)]

\* Mutant: the incoming release is merged in front of the bucket, so it
\* replaces a stored release with the same URL.
RECURSIVE persist_loop_new_first(_, _, _, _, _, _)
persist_loop_new_first(releases, exclude_today, td, cache, empty_dates, scraped_days) ==
  IF releases = <<>>
  THEN [cache |-> cache, empty_dates |-> empty_dates, scraped_days |-> scraped_days]
  ELSE LET release == Head(releases)
           day == _to_date(release.date)
       IN IF day = NoDay \/ (exclude_today /\ day = td)
          THEN persist_loop_new_first(Tail(releases), exclude_today, td, cache,
                                      empty_dates, scraped_days)
          ELSE LET key == isoformat(day)
                   combined == dedupe_by_url(<<release>> \o cache[key])
               IN persist_loop_new_first(Tail(releases), exclude_today, td,
                                         [cache EXCEPT ![key] = combined],
                                         empty_dates \ {day}, scraped_days \cup {day})

\* Mutant: a day that gains a release keeps its empty marker.
RECURSIVE persist_loop_keep_empty(_, _, _, _, _, _)
persist_loop_keep_empty(releases, exclude_today, td, cache, empty_dates, scraped_days) ==
  IF releases = <<>>
  THEN [cache |-> cache, empty_dates |-> empty_dates, scraped_days |-> scraped_days]
  ELSE LET release == Head(releases)
           day == _to_date(release.date)
       IN IF day = NoDay \/ (exclude_today /\ day = td)
          THEN persist_loop_keep_empty(Tail(releases), exclude_today, td, cache,
                                       empty_dates, scraped_days)
          ELSE LET key == isoformat(day)
                   combined == dedupe_by_url(Append(cache[key], release))
               IN persist_loop_keep_empty(Tail(releases), exclude_today, td,
                                          [cache EXCEPT ![key] = combined],
                                          empty_dates, scraped_days \cup {day})

\* Mutant: releases are stored under the day of the call, not their own date.
RECURSIVE persist_loop_key_today(_, _, _, _, _, _)
persist_loop_key_today(releases, exclude_today, td, cache, empty_dates, scraped_days) ==
  IF releases = <<>>
  THEN [cache |-> cache, empty_dates |-> empty_dates, scraped_days |-> scraped_days]
  ELSE LET release == Head(releases)
           day == _to_date(release.date)
       IN IF day = NoDay \/ (exclude_today /\ day = td)
          THEN persist_loop_key_today(Tail(releases), exclude_today, td, cache,
                                      empty_dates, scraped_days)
          ELSE LET key == isoformat(td)
                   combined == dedupe_by_url(Append(cache[key], release))
               IN persist_loop_key_today(Tail(releases), exclude_today, td,
                                         [cache EXCEPT ![key] = combined],
                                         empty_dates \ {day}, scraped_days \cup {day})

\* The loop of session_store.persist_release_metadata (lines 204-218) over
\* the releases, carrying cache, empty_dates and scraped_days.
RECURSIVE persist_loop(_, _, _, _, _, _)
persist_loop(releases, exclude_today, td, cache, empty_dates, scraped_days) ==
  IF releases = <<>>
  THEN [cache |-> cache, empty_dates |-> empty_dates, scraped_days |-> scraped_days]
  ELSE LET release == Head(releases)
           day == _to_date(release.date)
       IN IF day = NoDay \/ (exclude_today /\ day = td)
          THEN persist_loop(Tail(releases), exclude_today, td, cache, empty_dates,
                            scraped_days)
          ELSE LET key == isoformat(day)
                   combined == dedupe_by_url(Append(cache[key], release))
               IN persist_loop(Tail(releases), exclude_today, td,
                               [cache EXCEPT ![key] = combined],
                               empty_dates \ {day}, scraped_days \cup {day})

\* session_store.persist_release_metadata: the three files afterwards.
persist_release_metadata(cache, empty, scrape, releases, exclude_today, td) ==
  LET r == persist_loop(releases, exclude_today, td, cache, _load_date_set(empty), {})
  IN [cache |-> r.cache,
      empty |-> _save_empty_dates(r.empty_dates, td),
      scrape |-> IF r.scraped_days # {}
                 THEN mark_dates_scraped(scrape, r.scraped_days, exclude_today, td)
                 ELSE scrape,
      scraped_days |-> r.scraped_days]

\* The loop of session_store.cached_releases_for_range (lines 241-248).
RECURSIVE cached_loop(_, _, _, _)
cached_loop(cache, scraped_dates, cursor, end) ==
  IF cursor > end THEN [cached |-> <<>>, missing |-> <<>>]
  ELSE LET rest == cached_loop(cache, scraped_dates, cursor + 1, end)
           releases_for_day == cache[isoformat(cursor)]
       IN IF releases_for_day # <<>>
          THEN [cached |-> releases_for_day \o rest.cached, missing |-> rest.missing]
          ELSE IF cursor \notin scraped_dates
          THEN [cached |-> rest.cached, missing |-> <<cursor>> \o rest.missing]
          ELSE rest

\* Mutant: the empty-date set is not merged into the scraped set.
cached_releases_for_range_ignore_empty(cache, empty, scrape, start, end) ==
  LET r == cached_loop(cache, _load_date_set(scrape), start, end)
  IN [cached |-> dedupe_by_url(r.cached), missing |-> r.missing]

\* session_store.cached_releases_for_range: (cached releases, missing dates).
cached_releases_for_range(cache, empty, scrape, start, end) ==
  LET scraped_dates == _load_date_set(scrape) \cup _load_date_set(empty)
      r == cached_loop(cache, scraped_dates, start, end)
  IN [cached |-> dedupe_by_url(r.cached), missing |-> r.missing]

\* Mutant: the merged set is written back to the scrape-status file.
cached_read_files_write_back(cache, empty, scrape, td) ==
  [cache |-> cache, empty |-> empty,
   scrape |-> _save_scrape_status(_load_date_set(scrape) \cup _load_date_set(empty), td)]

\* The three files after session_store.cached_releases_for_range: it updates
\* its own copy of the scraped set (line 236) and calls no _save_*.
cached_read_files(cache, empty, scrape, td) ==
  [cache |-> cache, empty |-> empty, scrape |-> scrape]

\* Path.replace at the end of _save_cache and _save_date_set (lines 50, 84):
\* the destination afterwards, and whether FileNotFoundError was raised,
\* which neither function catches.
replace_tmp(dest, payload, tmp_exists) ==
  [file |-> IF tmp_exists THEN payload ELSE dest, raised |-> ~tmp_exists]

\* What a store file can be found to be on disk.
DamageKinds == {"missing", "malformed", "wrong_type"}

\* json.load on a file that exists: it raises on malformed text; a document
\* of the wrong top-level type parses.
json_load(kind) ==
  [raised |-> kind = "malformed", expected_type |-> kind = "ok"]

\* Mutant: the date-set loader without its try/except.
load_date_set_file_uncaught(kind, content) ==
  IF kind = "missing" THEN [raised |-> FALSE, dates |-> {}]
  ELSE IF json_load(kind).raised THEN [raised |-> TRUE, dates |-> {}]
  ELSE [raised |-> FALSE,
        dates |-> IF json_load(kind).expected_type THEN _load_date_set(content) ELSE {}]

\* session_store._load_date_set on a file in the given condition.
load_date_set_file(kind, content) ==
  IF kind = "missing" THEN [raised |-> FALSE, dates |-> {}]
  ELSE IF json_load(kind).raised THEN [raised |-> FALSE, dates |-> {}]
  ELSE [raised |-> FALSE,
        dates |-> IF json_load(kind).expected_type THEN _load_date_set(content) ELSE {}]

\* session_store._load_cache on a file in the given condition.
load_cache_file(kind, content) ==
  IF kind = "missing" THEN [raised |-> FALSE, cache |-> [k \in IsoKeys |-> <<>>]]
  ELSE IF json_load(kind).raised
  THEN [raised |-> FALSE, cache |-> [k \in IsoKeys |-> <<>>]]
  ELSE [raised |-> FALSE,
        cache |-> IF json_load(kind).expected_type THEN content
                  ELSE [k \in IsoKeys |-> <<>>]]

\* Mutant: a gap of one absent day does not end a range.
RECURSIVE collapse_loop_gap_two(_, _, _)
collapse_loop_gap_two(dates, start, prev) ==
  IF dates = <<>> THEN << <<start, prev>> >>
  ELSE LET day == Head(dates)
       IN IF day <= prev + 2
          THEN collapse_loop_gap_two(Tail(dates), start, day)
          ELSE << <<start, prev>> >> \o collapse_loop_gap_two(Tail(dates), day, day)

\* The loop of session_store.collapse_date_ranges (lines 260-267) over the
\* sorted dates after the first.
RECURSIVE collapse_loop(_, _, _)
collapse_loop(dates, start, prev) ==
  IF dates = <<>> THEN << <<start, prev>> >>
  ELSE LET day == Head(dates)
       IN IF day = prev + 1
          THEN collapse_loop(Tail(dates), start, day)
          ELSE << <<start, prev>> >> \o collapse_loop(Tail(dates), day, day)

\* Mutant: one range from the first missing date to the last.
collapse_date_ranges_span(dates) ==
  IF dates = <<>> THEN <<>>
  ELSE LET s == sorted(SeqToSet(dates))
       IN << <<s[1], s[Len(s)]>> >>

\* session_store.collapse_date_ranges.
collapse_date_ranges(dates) ==
  IF dates = <<>> THEN <<>>
  ELSE LET s == sorted(SeqToSet(dates))
       IN collapse_loop(Tail(s), s[1], s[1])

\* Mutant: today is reported like any other date.
scrape_status_for_range_with_today(scrape, start, end, td) ==
  LET scraped == _load_date_set(scrape)
  IN [k \in {isoformat(d) : d \in DateRange(start, end)} |-> k.day \in scraped]

\* session_store.scrape_status_for_range.
scrape_status_for_range(scrape, start, end, td) ==
  LET scraped == _load_date_set(scrape)
  IN [k \in {isoformat(d) : d \in DateRange(start, end)} |->
        k.day \in scraped /\ k.day # td]

\* The three files after session_store.scrape_status_for_range: it loads the
\* scrape-status file (line 182) and calls no _save_*.
scrape_status_files(cache, empty, scrape, td) ==
  [cache |-> cache, empty |-> empty, scrape |-> scrape]

\* session_store.get_full_release_cache.
RECURSIVE flatten_days(_, _)
flatten_days(cache, keys) ==
  IF keys = <<>> THEN <<>>
  ELSE cache[isoformat(Head(keys))] \o flatten_days(cache, Tail(keys))

\* Mutant: the flattened list is returned as it is.
get_full_release_cache_no_dedupe(cache) == flatten_days(cache, sorted(Days))

get_full_release_cache(cache) ==
  dedupe_by_url(flatten_days(cache, sorted(Days)))

\* ------------------------------------------------------- bandcamp.py
\* An Optional value is a sequence: <<>> is None, <<v>> is the value v.
\* The item ids build_embed_url is given.
ItemIds == {<<>>} \cup {<<n>> : n \in -1..MaxItemId}

\* Mutant: the player is always an album player.
build_embed_url_always_album(item_id, is_track) ==
  IF item_id = <<>> \/ item_id[1] = 0 THEN <<>>
  ELSE << [base |-> "https://bandcamp.com/EmbeddedPlayer",
           kind |-> "album",
           id |-> item_id[1],
           options |-> "size=large/bgcol=ffffff/linkcol=0687f5/tracklist=true/artwork=small/transparent=true/"] >>

\* bandcamp.build_embed_url: f"{base}/{kind}={item_id}/{options}", a record
\* of the four parts of the path, or None when `not item_id`.
build_embed_url(item_id, is_track) ==
  IF item_id = <<>> \/ item_id[1] = 0 THEN <<>>
  ELSE << [base |-> "https://bandcamp.com/EmbeddedPlayer",
           kind |-> IF is_track THEN "track" ELSE "album",
           id |-> item_id[1],
           options |-> "size=large/bgcol=ffffff/linkcol=0687f5/tracklist=true/artwork=small/transparent=true/"] >>

\* What a caller of session_store.mark_date_range_scraped or
\* persist_empty_date_range learns about the pair (start, end): the guard
\* `if start > end: return` (lines 152-153, 278-279) returns None like a call
\* that did its work, and neither function has a raise.
range_call_raised(start, end) == FALSE

\* ------------------------------------------------ server.py reset_caches
\* The files POST /reset-caches can remove.
ResetPaths == {"RELEASE_CACHE_PATH", "EMPTY_DATES_PATH", "SCRAPE_STATUS_PATH",
               "EMBED_CACHE_PATH", "VIEWED_PATH", "STARRED_PATH"}

\* reset_caches: the paths it unlinks (each only if the file exists).
reset_caches(clear_cache, clear_viewed, clear_starred) ==
  (IF clear_cache
   THEN {"RELEASE_CACHE_PATH", "EMPTY_DATES_PATH", "SCRAPE_STATUS_PATH", "EMBED_CACHE_PATH"}
   ELSE {})
  \cup (IF clear_viewed \/ clear_starred THEN {"VIEWED_PATH", "STARRED_PATH"} ELSE {})

\* ------------------------------------------------ pipeline.py helpers
\* The emails get_messages returns for a window: each has the Date header as
\* get_messages formats it (strftime("%Y-%m-%d"), any day: the header's own
\* time zone need not agree with the search window) and the release URL
\* scrape_info_from_email finds in it, or NoUrl when it finds none.
EmailUrls == {"a", NoUrl}

Emails == [url : EmailUrls, date : IsoKeys]

EmailLists(n) == [1..n -> Emails]

\* pipeline.construct_release_list: one release per email, its date
\* re-formatted with slashes (an email is dropped only if every field is
\* None, and the date never is), then deduplicated by URL.
construct_release_list(emails) ==
  dedupe_by_url([i \in 1..Len(emails) |->
                   construct_release(emails[i].url,
                                     strftime_slash(_parse_date(emails[i].date)))])

\* Mutant: the range is never rejected.
range_invalid_never(start, end) ==
  FALSE

\* pipeline.py line 107: the range test.
range_invalid(start, end) ==
  start > end

\* Mutant: a failed gmail_authenticate is swallowed and the call goes on.
after_authenticate_ignore_failure(co, auth_ok, ranges) ==
  IF ranges = <<>> THEN "finish" ELSE "search"

\* pipeline.py lines 124-131: where the call goes after authenticating
\* (cache_only skips gmail_authenticate; its exception is re-raised).
after_authenticate(co, auth_ok, ranges) ==
  IF ~co /\ ~auth_ok THEN "failed"
  ELSE IF ranges = <<>> THEN "finish" ELSE "search"

\* Mutant: a limit of 0 is enforced like any other.
limit_exceeded_zero_enforced(limit, found) ==
  found > limit

\* pipeline.py line 140: the result-limit test.
limit_exceeded(limit, found) ==
  limit # 0 /\ found > limit

\* --------------------------------------------------------------- state
VARIABLES
  today,            \* datetime.date.today()
  calls,            \* number of calls made so far (bounded by MaxCalls)
  release_cache,    \* release_cache.json
  empty_file,       \* no_results_dates.json
  scrape_file,      \* scrape_status.json
  scrape_written_on,\* history: today at the last write of scrape_status.json
  received,         \* history: the days the persist_release_metadata call that
                    \* has just returned gave a release to (its scraped_days)
  cleared,          \* history: the days that call found in the Empty-Date Set
  fresh_data,       \* history: the days whose bucket persist_release_metadata
                    \* has written since they were last marked empty
  pc,               \* position of the populate call
  start_date, end_date, cache_only, max_results,   \* its arguments
  cached_releases, missing_dates, missing_ranges,  \* its locals
  win,              \* index of the window the loop is at
  message_ids,      \* number of ids the last search returned
  releases,         \* the accumulated list
  error, exc,       \* the exception that ended the call, if any
  known_at_start,   \* history: days with data or resolved when the call began
  store_was_empty,  \* history: the three stores were empty when the call began
  searched,         \* history: the windows search_messages was called for
  body_fetched,     \* history: the windows get_messages was called for
  marked,           \* history: the per-window marks the call wrote
  auth_calls,       \* history: the outcome of each gmail_authenticate call
  store_read,       \* history: the call has read the stores
  store_at_start,   \* history: the three files when the call began
  reads,            \* number of direct cached_releases_for_range calls
  range_result,     \* what the last of them was asked and returned
  tmp_lost_write,   \* the last write whose temporary file had vanished
  last_load,        \* the last load of a damaged file
  POPULATE_LOCK,    \* embed_proxy.POPULATE_LOCK is held
  lock_holder,      \* history: the request whose acquire holds it (0: none)
  request,          \* where each populate HTTP request is
  worker,           \* each request's populate execution
  queue,            \* log lines waiting in each request's SimpleQueue
  queue_end,        \* the worker's closing None is in the queue
  client,           \* each request's client connection
  applied           \* the last direct call of a pure function: name, input, output

storeVars == <<release_cache, empty_file, scrape_file, scrape_written_on>>
argVars == <<start_date, end_date, cache_only, max_results>>
localVars == <<cached_releases, missing_dates, missing_ranges, win, message_ids,
               releases, error, exc>>
histVars == <<known_at_start, store_was_empty, searched, body_fetched, marked>>
callHist == <<auth_calls, store_read, store_at_start>>
popVars == <<pc, argVars, localVars, histVars, callHist>>
histStore == <<received, cleared, fresh_data>>
ioVars == <<reads, range_result, tmp_lost_write, last_load>>
srvVars == <<POPULATE_LOCK, lock_holder, request, worker, queue, queue_end, client>>
otherVars == <<ioVars, srvVars, applied>>

Requests == 1..MaxRequests
vars == <<today, calls, storeVars, histStore, popVars, otherVars>>

NoExc == [max_results |-> 0, found |-> 0]

EmptyCache == [k \in IsoKeys |-> <<>>]

\* The content of the three files.
StoreFiles == [cache |-> release_cache, empty |-> empty_file, scrape |-> scrape_file]

NoFiles == [cache |-> EmptyCache, empty |-> <<>>, scrape |-> <<>>]

NoResult == [start |-> NoDay, end |-> NoDay, cached |-> <<>>, missing |-> <<>>]

NoWrite == [file |-> "none", raised |-> FALSE, landed |-> TRUE]

NoLoad == [file |-> "none", kind |-> "ok", raised |-> FALSE, empty |-> TRUE]

NoCall == [fn |-> "none", input |-> <<>>, output |-> <<>>]

Scraped == _load_date_set(scrape_file)
Empty == _load_date_set(empty_file)

Init ==
  /\ today = FirstToday
  /\ calls = 0
  /\ release_cache = EmptyCache
  /\ empty_file = <<>>
  /\ scrape_file = <<>>
  /\ scrape_written_on = NoDay
  /\ received = {} /\ cleared = {} /\ fresh_data = {}
  /\ pc = "idle"
  /\ start_date = NoDay /\ end_date = NoDay /\ cache_only = FALSE /\ max_results = 0
  /\ cached_releases = <<>> /\ missing_dates = <<>> /\ missing_ranges = <<>>
  /\ win = 1 /\ message_ids = 0 /\ releases = <<>>
  /\ error = "none" /\ exc = NoExc
  /\ known_at_start = {} /\ store_was_empty = FALSE
  /\ searched = <<>> /\ body_fetched = <<>> /\ marked = <<>>
  /\ auth_calls = <<>> /\ store_read = FALSE /\ store_at_start = NoFiles
  /\ reads = 0 /\ range_result = NoResult
  /\ tmp_lost_write = NoWrite /\ last_load = NoLoad
  /\ POPULATE_LOCK = FALSE /\ lock_holder = 0
  /\ request = [r \in Requests |-> "none"]
  /\ worker = [r \in Requests |-> "none"]
  /\ queue = [r \in Requests |-> 0]
  /\ queue_end = [r \in Requests |-> FALSE]
  /\ client = [r \in Requests |-> "connected"]
  /\ applied = NoCall

\* Midnight: datetime.date.today() moves on.  A call is short against a day:
\* the clock moves between calls, and every date.today() of one call reads
\* the same day.
Tick ==
  /\ UNCHANGED otherVars
  /\ pc = "idle"
  /\ today < MaxDay
  /\ today' = today + 1
  /\ received' = {} /\ cleared' = {}
  /\ UNCHANGED <<calls, storeVars, fresh_data, popVars>>

BucketsBounded(cache) == \A k \in IsoKeys : Len(cache[k]) <= MaxBucket

BeginCall ==
  /\ pc = "idle"
  /\ calls < MaxCalls
  /\ calls' = calls + 1

\* ------------------------------------------- the store's operations
\* Called directly (tests, tools); the engine is sequential, so none runs
\* in the middle of a populate call.
MarkDatesScraped(dates, exclude_today) ==
  /\ UNCHANGED otherVars
  /\ BeginCall
  /\ scrape_file' = mark_dates_scraped(scrape_file, dates, exclude_today, today)
  /\ scrape_written_on' = today
  /\ received' = {} /\ cleared' = {}
  /\ UNCHANGED fresh_data
  /\ UNCHANGED <<today, release_cache, empty_file, popVars>>

MarkDateRangeScraped(start, end, exclude_today) ==
  /\ UNCHANGED otherVars
  /\ BeginCall
  /\ scrape_file' = mark_date_range_scraped(scrape_file, start, end, exclude_today, today)
  /\ scrape_written_on' = IF start > end THEN scrape_written_on ELSE today
  /\ received' = {} /\ cleared' = {}
  /\ UNCHANGED fresh_data
  /\ UNCHANGED <<today, release_cache, empty_file, popVars>>

MarkDatesNotScraped(dates) ==
  /\ UNCHANGED otherVars
  /\ BeginCall
  /\ scrape_file' = mark_dates_not_scraped(scrape_file, dates, today)
  /\ scrape_written_on' = today
  /\ received' = {} /\ cleared' = {}
  /\ UNCHANGED fresh_data
  /\ UNCHANGED <<today, release_cache, empty_file, popVars>>

PersistEmptyDateRange(start, end, exclude_today) ==
  /\ UNCHANGED otherVars
  /\ BeginCall
  /\ LET r == persist_empty_date_range(empty_file, scrape_file, start, end,
                                       exclude_today, today)
     IN /\ empty_file' = r.empty
        /\ scrape_file' = r.scrape
  /\ scrape_written_on' = IF start > end THEN scrape_written_on ELSE today
  /\ received' = {} /\ cleared' = {}
  /\ fresh_data' = fresh_data \ (_load_date_set(empty_file') \ Empty)
  /\ UNCHANGED <<today, release_cache, popVars>>

PersistReleaseMetadata(rels, exclude_today) ==
  /\ UNCHANGED otherVars
  /\ BeginCall
  /\ LET r == persist_release_metadata(release_cache, empty_file, scrape_file, rels,
                                       exclude_today, today)
     IN /\ BucketsBounded(r.cache)
        /\ release_cache' = r.cache
        /\ empty_file' = r.empty
        /\ scrape_file' = r.scrape
        /\ scrape_written_on' = IF r.scraped_days # {} THEN today ELSE scrape_written_on
        /\ received' = r.scraped_days
        /\ cleared' = r.scraped_days \cap Empty
        /\ fresh_data' = fresh_data \cup r.scraped_days
  /\ UNCHANGED <<today, popVars>>

\* cached_releases_for_range called directly.
CachedReleasesForRange(start, end) ==
  /\ UNCHANGED <<srvVars, applied>>
  /\ BeginCall
  /\ start <= end
  /\ LET r == cached_releases_for_range(release_cache, empty_file, scrape_file,
                                        start, end)
         f == cached_read_files(release_cache, empty_file, scrape_file, today)
     IN /\ range_result' = [start |-> start, end |-> end, cached |-> r.cached,
                            missing |-> r.missing]
        /\ release_cache' = f.cache
        /\ empty_file' = f.empty
        /\ scrape_file' = f.scrape
  /\ reads' = reads + 1
  /\ received' = {} /\ cleared' = {}
  /\ UNCHANGED <<today, scrape_written_on, fresh_data, popVars, tmp_lost_write,
                 last_load>>

\* mark_dates_scraped when the temporary file has vanished before
\* tmp_path.replace in _save_date_set (line 84).
MarkDatesScrapedTmpLost(dates, exclude_today) ==
  /\ UNCHANGED <<srvVars, applied>>
  /\ BeginCall
  /\ LET payload == mark_dates_scraped(scrape_file, dates, exclude_today, today)
         w == replace_tmp(scrape_file, payload, FALSE)
     IN /\ scrape_file' = w.file
        /\ tmp_lost_write' = [file |-> "scrape", raised |-> w.raised,
                              landed |-> (w.file = payload)]
  /\ received' = {} /\ cleared' = {}
  /\ UNCHANGED <<today, release_cache, empty_file, scrape_written_on, fresh_data,
                 popVars, reads, range_result, last_load>>

\* persist_empty_date_range when the temporary file has vanished before
\* tmp_path.replace in _save_empty_dates (line 288): the exception leaves
\* the function before mark_date_range_scraped.
PersistEmptyDateRangeTmpLost(start, end, exclude_today) ==
  /\ UNCHANGED <<srvVars, applied>>
  /\ BeginCall
  /\ start <= end
  /\ LET payload == persist_empty_date_range(empty_file, scrape_file, start, end,
                                             exclude_today, today).empty
         w == replace_tmp(empty_file, payload, FALSE)
     IN /\ empty_file' = w.file
        /\ tmp_lost_write' = [file |-> "empty", raised |-> w.raised,
                              landed |-> (w.file = payload)]
        /\ scrape_file' = IF w.raised THEN scrape_file
                          ELSE mark_date_range_scraped(scrape_file, start, end,
                                                       exclude_today, today)
  /\ received' = {} /\ cleared' = {}
  /\ UNCHANGED <<today, release_cache, scrape_written_on, fresh_data, popVars, reads,
                 range_result, last_load>>

\* persist_release_metadata when the temporary file has vanished before
\* tmp_path.replace in _save_cache (line 219): the exception leaves the
\* function before the two date sets are written.
PersistReleaseMetadataTmpLost(rels, exclude_today) ==
  /\ UNCHANGED <<srvVars, applied>>
  /\ BeginCall
  /\ LET r == persist_release_metadata(release_cache, empty_file, scrape_file, rels,
                                       exclude_today, today)
         w == replace_tmp(release_cache, r.cache, FALSE)
     IN /\ BucketsBounded(r.cache)
        /\ release_cache' = w.file
        /\ tmp_lost_write' = [file |-> "cache", raised |-> w.raised,
                              landed |-> (w.file = r.cache)]
        /\ empty_file' = IF w.raised THEN empty_file ELSE r.empty
        /\ scrape_file' = IF w.raised THEN scrape_file ELSE r.scrape
  /\ received' = {} /\ cleared' = {}
  /\ UNCHANGED <<today, scrape_written_on, fresh_data, popVars, reads, range_result,
                 last_load>>

\* A date-set file is found missing, malformed or of the wrong top-level
\* type by the next operation's load; the file is from then on what that
\* load returned.
LoadDamagedDateSet(file, kind) ==
  /\ UNCHANGED <<srvVars, applied>>
  /\ BeginCall
  /\ LET r == load_date_set_file(kind, IF file = "empty" THEN empty_file
                                       ELSE scrape_file)
         seen == [i \in 1..Cardinality(r.dates) |-> isoformat(sorted(r.dates)[i])]
     IN /\ last_load' = [file |-> file, kind |-> kind, raised |-> r.raised,
                         empty |-> (r.dates = {})]
        /\ empty_file' = IF file = "empty" THEN seen ELSE empty_file
        /\ scrape_file' = IF file = "scrape" THEN seen ELSE scrape_file
  /\ received' = {} /\ cleared' = {}
  /\ UNCHANGED <<today, release_cache, scrape_written_on, fresh_data, popVars,
                 reads, range_result, tmp_lost_write>>

\* The same for the release cache file.
LoadDamagedCache(kind) ==
  /\ UNCHANGED <<srvVars, applied>>
  /\ BeginCall
  /\ LET r == load_cache_file(kind, release_cache)
     IN /\ last_load' = [file |-> "cache", kind |-> kind, raised |-> r.raised,
                         empty |-> (r.cache = EmptyCache)]
        /\ release_cache' = r.cache
  /\ received' = {} /\ cleared' = {} /\ fresh_data' = {}
  /\ UNCHANGED <<today, empty_file, scrape_file, scrape_written_on, popVars,
                 reads, range_result, tmp_lost_write>>

\* ------------------------------- populate: gather_releases_with_cache
Window == missing_ranges[win]

AfterWindow == IF win + 1 > Len(missing_ranges) THEN "finish" ELSE "search"

\* Lines 105-129: parse and validate the range, read the cache, collapse the
\* missing dates, authenticate.  auth_ok is gmail_authenticate's outcome.
PopulateStart(after_date, before_date, co, mr, auth_ok) ==
  /\ UNCHANGED otherVars
  /\ BeginCall
  /\ start_date' = _parse_date(after_date)
  /\ end_date' = _parse_date(before_date)
  /\ cache_only' = co
  /\ max_results' = mr
  /\ received' = {} /\ cleared' = {}
  /\ UNCHANGED <<today, storeVars, fresh_data, message_ids, exc, body_fetched, searched, marked,
                 win>>
  /\ store_at_start' = StoreFiles
  /\ IF range_invalid(start_date', end_date')
     THEN /\ pc' = "failed"
          /\ error' = "range"
          /\ auth_calls' = <<>>
          /\ store_read' = FALSE
          /\ UNCHANGED <<cached_releases, missing_dates, missing_ranges, releases,
                         known_at_start, store_was_empty>>
     ELSE LET r == cached_releases_for_range(release_cache, empty_file, scrape_file,
                                             start_date', end_date')
          IN /\ cached_releases' = r.cached
             /\ missing_dates' = r.missing
             /\ missing_ranges' = IF co THEN <<>> ELSE collapse_date_ranges(r.missing)
             /\ releases' = r.cached
             /\ known_at_start' = {d \in Days : release_cache[isoformat(d)] # <<>>
                                                \/ d \in Scraped \/ d \in Empty}
             /\ store_was_empty' = (release_cache = EmptyCache /\ empty_file = <<>>
                                    /\ scrape_file = <<>>)
             /\ store_read' = TRUE
             /\ auth_calls' = IF co THEN <<>> ELSE <<auth_ok>>
             /\ pc' = after_authenticate(co, auth_ok, missing_ranges')
             /\ error' = IF pc' = "failed" THEN "auth" ELSE "none"

\* Lines 131-148: search one window; found is the number of ids returned.
PopulateSearch(found) ==
  /\ UNCHANGED otherVars
  /\ pc = "search"
  /\ searched' = Append(searched, [start |-> Window[1], end |-> Window[2],
                                   found |-> found])
  /\ UNCHANGED <<today, calls, received, cleared, release_cache, argVars, cached_releases,
                 missing_dates, missing_ranges, releases, known_at_start,
                 store_was_empty, body_fetched>>
  /\ IF limit_exceeded(max_results, found)
     THEN /\ pc' = "failed"
          /\ error' = "max"
          /\ exc' = [max_results |-> max_results, found |-> found]
          /\ UNCHANGED <<empty_file, scrape_file, scrape_written_on, win, message_ids,
                         marked>>
     ELSE IF found = 0
     THEN LET r == persist_empty_date_range(empty_file, scrape_file, Window[1],
                                            Window[2], TRUE, today)
          IN /\ empty_file' = r.empty
             /\ scrape_file' = r.scrape
             /\ scrape_written_on' = today
             /\ marked' = Append(marked, [start |-> Window[1], end |-> Window[2],
                                          kind |-> "empty"])
             /\ win' = win + 1
             /\ pc' = AfterWindow
             /\ UNCHANGED <<message_ids, error, exc>>
     ELSE /\ message_ids' = found
          /\ pc' = "fetch"
          /\ UNCHANGED <<empty_file, scrape_file, scrape_written_on, win, marked,
                         error, exc>>
  /\ fresh_data' = fresh_data \ (_load_date_set(empty_file') \ Empty)
  /\ UNCHANGED callHist

\* Lines 138, 142-144: search_messages raises (an HTTP error, a revoked token).
PopulateSearchError ==
  /\ UNCHANGED otherVars
  /\ pc = "search"
  /\ pc' = "failed"
  /\ error' = "search"
  /\ UNCHANGED <<today, calls, histStore, storeVars, argVars, cached_releases,
                 missing_dates, missing_ranges, win, message_ids, releases, exc,
                 histVars, callHist>>

\* Lines 150-159: fetch the bodies, parse, accumulate, mark the window scraped.
PopulateFetch(emails) ==
  /\ UNCHANGED otherVars
  /\ pc = "fetch"
  /\ body_fetched' = Append(body_fetched, Window)
  /\ releases' = releases \o construct_release_list(emails)
  /\ scrape_file' = mark_date_range_scraped(scrape_file, Window[1], Window[2], TRUE,
                                            today)
  /\ scrape_written_on' = today
  /\ marked' = Append(marked, [start |-> Window[1], end |-> Window[2],
                               kind |-> "scraped"])
  /\ win' = win + 1
  /\ message_ids' = 0
  /\ pc' = AfterWindow
  /\ UNCHANGED <<today, calls, histStore, release_cache, empty_file, argVars,
                 cached_releases, missing_dates, missing_ranges, error, exc,
                 known_at_start, store_was_empty, searched, callHist>>

\* Lines 151-155: get_messages raises (rate limit, revoked token, an error
\* entry in the batch) or construct_release_list raises on an email whose
\* Date header _parse_date rejects; the window is not marked.
PopulateFetchError ==
  /\ UNCHANGED otherVars
  /\ pc = "fetch"
  /\ body_fetched' = Append(body_fetched, Window)
  /\ pc' = "failed"
  /\ error' = "fetch"
  /\ UNCHANGED <<today, calls, histStore, storeVars, argVars, cached_releases,
                 missing_dates, missing_ranges, win, message_ids, releases, exc,
                 known_at_start, store_was_empty, searched, marked, callHist>>

\* Lines 161-171: dedupe the combined list by date and persist it.
PopulateFinish ==
  /\ UNCHANGED otherVars
  /\ pc = "finish"
  /\ LET deduped == _dedupe_by_date(releases, "last")
         r == persist_release_metadata(release_cache, empty_file, scrape_file, deduped,
                                       TRUE, today)
     IN /\ BucketsBounded(r.cache)
        /\ release_cache' = r.cache
        /\ empty_file' = r.empty
        /\ scrape_file' = r.scrape
        /\ scrape_written_on' = IF r.scraped_days # {} THEN today ELSE scrape_written_on
        /\ received' = r.scraped_days
        /\ cleared' = r.scraped_days \cap Empty
        /\ fresh_data' = fresh_data \cup r.scraped_days
  /\ pc' = "done"
  /\ UNCHANGED <<today, calls, argVars, localVars, histVars, callHist>>

\* The call has returned or raised; the next one starts from fresh locals.
PopulateReturn ==
  /\ UNCHANGED otherVars
  /\ pc \in {"done", "failed"}
  /\ pc' = "idle"
  /\ start_date' = NoDay /\ end_date' = NoDay /\ cache_only' = FALSE /\ max_results' = 0
  /\ cached_releases' = <<>> /\ missing_dates' = <<>> /\ missing_ranges' = <<>>
  /\ win' = 1 /\ message_ids' = 0 /\ releases' = <<>>
  /\ error' = "none" /\ exc' = NoExc
  /\ known_at_start' = {} /\ store_was_empty' = FALSE
  /\ searched' = <<>> /\ body_fetched' = <<>> /\ marked' = <<>>
  /\ auth_calls' = <<>> /\ store_read' = FALSE /\ store_at_start' = NoFiles
  /\ received' = {} /\ cleared' = {}
  /\ UNCHANGED <<today, calls, fresh_data, storeVars>>

\* ------------------------------------------ the HTTP facade (embed_proxy)
\* Mutant: the lock is taken whether or not it is held.
try_acquire_always(held) ==
  [acquired |-> TRUE, held |-> TRUE]

\* POPULATE_LOCK.acquire(blocking=False): it returns at once, True with the
\* lock taken if it was free, False if it was held.
try_acquire(held) ==
  [acquired |-> ~held, held |-> TRUE]

engineVars == <<today, calls, release_cache, empty_file, histStore, popVars, ioVars,
                applied>>

\* The handlers up to the lock (populate_range lines 335-358,
\* populate_range_stream lines 446-477): a request with a bad range or
\* without credentials is answered before the lock is tried; otherwise the
\* lock is tried without blocking.
Handle(r, valid, accepted_as) ==
  /\ request[r] = "none"
  /\ IF ~valid
     THEN /\ request' = [request EXCEPT ![r] = "invalid"]
          /\ UNCHANGED <<POPULATE_LOCK, lock_holder>>
     ELSE LET a == try_acquire(POPULATE_LOCK)
          IN /\ POPULATE_LOCK' = a.held
             /\ request' = [request EXCEPT ![r] = IF a.acquired THEN accepted_as
                                                  ELSE "rejected"]
             /\ lock_holder' = IF a.acquired THEN r ELSE lock_holder

\* GET /populate-range-stream: on success the handler returns the response
\* around the event_stream generator, which has not started.
StreamRequest(r, valid) ==
  /\ Handle(r, valid, "accepted")
  /\ UNCHANGED <<worker, queue, queue_end, client, engineVars, scrape_file,
                 scrape_written_on>>

\* Lines 481-514: the server starts iterating event_stream, which creates
\* the queue and starts the worker thread.
StreamStart(r) ==
  /\ request[r] = "accepted"
  /\ request' = [request EXCEPT ![r] = "streaming"]
  /\ worker' = [worker EXCEPT ![r] = "running"]
  /\ UNCHANGED <<POPULATE_LOCK, lock_holder, queue, queue_end, client, engineVars,
                 scrape_file, scrape_written_on>>

\* POST /populate-range (lines 335-390): on success gather_releases_with_cache
\* runs in the request's own thread.
SyncRequest(r, valid) ==
  /\ Handle(r, valid, "sync")
  /\ worker' = [worker EXCEPT ![r] = IF request'[r] = "sync" THEN "running" ELSE @]
  /\ UNCHANGED <<queue, queue_end, client, engineVars, scrape_file, scrape_written_on>>

\* A running gather_releases_with_cache finishes a window: it logs a line
\* (q.put, or logs.append) and marks the window's day scraped.
WorkerLog(r, day) ==
  /\ worker[r] = "running"
  /\ queue[r] < MaxLog
  /\ queue' = [queue EXCEPT ![r] = @ + 1]
  /\ scrape_file' = mark_date_range_scraped(scrape_file, day, day, TRUE, today)
  /\ scrape_written_on' = today
  /\ UNCHANGED <<POPULATE_LOCK, lock_holder, request, worker, queue_end, client,
                 engineVars>>

\* Lines 487-510: the worker thread's populate returns or raises; its
\* finally puts the closing None.  The thread is not tied to the stream: it
\* runs on after the generator is closed.
WorkerFinish(r) ==
  /\ worker[r] = "running"
  /\ request[r] \in {"streaming", "closed"}
  /\ worker' = [worker EXCEPT ![r] = "finished"]
  /\ queue_end' = [queue_end EXCEPT ![r] = TRUE]
  /\ UNCHANGED <<POPULATE_LOCK, lock_holder, request, queue, client, engineVars,
                 scrape_file, scrape_written_on>>

\* Lines 516-522: q.get returns a log line and the generator yields it.  If
\* the client has gone the server's write fails and it closes the generator,
\* whose finally (lines 524-525) releases the lock.
StreamYield(r) ==
  /\ request[r] = "streaming"
  /\ queue[r] > 0
  /\ queue' = [queue EXCEPT ![r] = @ - 1]
  /\ IF client[r] = "gone"
     THEN /\ request' = [request EXCEPT ![r] = "closed"]
          /\ POPULATE_LOCK' = FALSE
          /\ lock_holder' = 0
     ELSE UNCHANGED <<request, POPULATE_LOCK, lock_holder>>
  /\ UNCHANGED <<worker, queue_end, client, engineVars, scrape_file, scrape_written_on>>

\* Mutant: the generator ends without its finally.
StreamDone_keeps_lock(r) ==
  /\ request[r] = "streaming"
  /\ queue[r] = 0
  /\ queue_end[r]
  /\ request' = [request EXCEPT ![r] = "done"]
  /\ UNCHANGED <<POPULATE_LOCK, lock_holder, worker, queue, queue_end, client, engineVars,
                 scrape_file, scrape_written_on>>

\* Lines 518-525: q.get returns None; the generator yields the done event
\* and its finally releases the lock.
StreamDone(r) ==
  /\ request[r] = "streaming"
  /\ queue[r] = 0
  /\ queue_end[r]
  /\ request' = [request EXCEPT ![r] = "done"]
  /\ POPULATE_LOCK' = FALSE
  /\ lock_holder' = 0
  /\ UNCHANGED <<worker, queue, queue_end, client, engineVars, scrape_file,
                 scrape_written_on>>

\* Lines 363-390: the synchronous populate returns or raises; the handler's
\* finally releases the lock.
SyncFinish(r) ==
  /\ request[r] = "sync"
  /\ worker[r] = "running"
  /\ worker' = [worker EXCEPT ![r] = "finished"]
  /\ request' = [request EXCEPT ![r] = "sync_done"]
  /\ POPULATE_LOCK' = FALSE
  /\ lock_holder' = 0
  /\ UNCHANGED <<queue, queue_end, client, engineVars, scrape_file, scrape_written_on>>

\* The client of a progress stream goes away (the tab is closed or reloaded).
Disconnect(r) ==
  /\ request[r] \in {"accepted", "streaming"}
  /\ client[r] = "connected"
  /\ client' = [client EXCEPT ![r] = "gone"]
  /\ UNCHANGED <<POPULATE_LOCK, lock_holder, request, worker, queue, queue_end,
                 engineVars, scrape_file, scrape_written_on>>

\* POST /reset-caches (bcfeed/server.py lines 504-540) while the engine is
\* anywhere: the handler takes no lock.  An unlinked store file reads as
\* empty.  One reset request per behaviour; it records where the engine was.
ResetCaches(clear_cache, clear_viewed, clear_starred) ==
  /\ applied = NoCall
  /\ LET unlinked == reset_caches(clear_cache, clear_viewed, clear_starred)
     IN /\ release_cache' = IF "RELEASE_CACHE_PATH" \in unlinked THEN EmptyCache
                            ELSE release_cache
        /\ empty_file' = IF "EMPTY_DATES_PATH" \in unlinked THEN <<>> ELSE empty_file
        /\ scrape_file' = IF "SCRAPE_STATUS_PATH" \in unlinked THEN <<>> ELSE scrape_file
        /\ scrape_written_on' = IF "SCRAPE_STATUS_PATH" \in unlinked THEN NoDay
                                ELSE scrape_written_on
        /\ applied' = [fn |-> "reset_caches",
                       input |-> [clear_cache |-> clear_cache, clear_viewed |-> clear_viewed,
                                  clear_starred |-> clear_starred, pc |-> pc, call |-> calls],
                       output |-> unlinked]
  /\ received' = {} /\ cleared' = {} /\ fresh_data' = {}
  /\ UNCHANGED <<today, calls, popVars, ioVars, srvVars>>

\* ------------------------------------------------------ specifications
\* Spec: populate calls and the clock.
Next ==
  \/ Tick
  \/ \E a \in IsoKeys, b \in IsoKeys, co \in BOOLEAN, mr \in 0..MaxLimit,
        ok \in BOOLEAN : PopulateStart(a, b, co, mr, ok)
  \/ \E n \in 0..MaxIds : PopulateSearch(n)
  \/ PopulateSearchError
  \/ \E emails \in EmailLists(message_ids) : PopulateFetch(emails)
  \/ PopulateFetchError
  \/ PopulateFinish
  \/ PopulateReturn

Spec == Init /\ [][Next]_vars

\* SpecStore: the store's operations called directly, and the clock.
\* The releases a direct persist_release_metadata call is given.
PersistInputs ==
  UNION {[1..n -> {r \in Releases : r.date.fmt # "slash"}] : n \in 1..2}

NextStore ==
  \/ Tick
  \/ \E dates \in SUBSET Days, x \in BOOLEAN : MarkDatesScraped(dates, x)
  \/ \E s \in Days, e \in Days, x \in BOOLEAN : MarkDateRangeScraped(s, e, x)
  \/ \E dates \in SUBSET Days : MarkDatesNotScraped(dates)
  \/ \E s \in Days, e \in Days, x \in BOOLEAN : PersistEmptyDateRange(s, e, x)
  \/ \E rels \in PersistInputs, x \in BOOLEAN : PersistReleaseMetadata(rels, x)

SpecStore == Init /\ [][NextStore]_vars

\* SpecIO: the store's operations with the disk misbehaving (a temporary
\* file that vanishes, a file found damaged) and direct range reads.
SingleInputs == {in \in PersistInputs : Len(in) = 1}

NextIO ==
  \/ Tick
  \/ \E dates \in SUBSET Days, x \in BOOLEAN : MarkDatesScraped(dates, x)
  \/ \E s \in Days, e \in Days, x \in BOOLEAN : PersistEmptyDateRange(s, e, x)
  \/ \E rels \in SingleInputs, x \in BOOLEAN : PersistReleaseMetadata(rels, x)
  \/ \E s \in Days, e \in Days : CachedReleasesForRange(s, e)
  \/ \E dates \in SUBSET Days, x \in BOOLEAN : MarkDatesScrapedTmpLost(dates, x)
  \/ \E s \in Days, e \in Days, x \in BOOLEAN : PersistEmptyDateRangeTmpLost(s, e, x)
  \/ \E rels \in SingleInputs, x \in BOOLEAN : PersistReleaseMetadataTmpLost(rels, x)
  \/ \E f \in {"empty", "scrape"}, k \in DamageKinds : LoadDamagedDateSet(f, k)
  \/ \E k \in DamageKinds : LoadDamagedCache(k)

SpecIO == Init /\ [][NextIO]_vars

\* SpecServer: populate HTTP requests, their workers and their clients.
NextServer ==
  \/ \E r \in Requests, valid \in BOOLEAN : StreamRequest(r, valid)
  \/ \E r \in Requests : StreamStart(r)
  \/ \E r \in Requests, valid \in BOOLEAN : SyncRequest(r, valid)
  \/ \E r \in Requests, day \in Days : WorkerLog(r, day)
  \/ \E r \in Requests : WorkerFinish(r)
  \/ \E r \in Requests : StreamYield(r)
  \/ \E r \in Requests : StreamDone(r)
  \/ \E r \in Requests : SyncFinish(r)
  \/ \E r \in Requests : Disconnect(r)

SpecServer == Init /\ [][NextServer]_vars

\* SpecServerFair: SpecServer with the server's own threads scheduled.  The
\* WSGI server iterates every response it was handed, a started worker
\* thread runs until its populate returns or raises, and a generator whose
\* q.get can return is resumed.  Nothing is assumed of the clients: no new
\* request has to arrive and no client has to stay or to leave.
SpecServerFair ==
  /\ SpecServer
  /\ \A r \in Requests :
       /\ WF_vars(StreamStart(r))
       /\ WF_vars(WorkerFinish(r))
       /\ WF_vars(StreamYield(r))
       /\ WF_vars(StreamDone(r))
       /\ WF_vars(SyncFinish(r))

\* SpecAll: populate calls interleaved with direct persist_release_metadata
\* calls (made between populate calls), and the clock.
NextAll ==
  \/ Next
  \/ \E rels \in SingleInputs, x \in BOOLEAN : PersistReleaseMetadata(rels, x)

SpecAll == Init /\ [][NextAll]_vars

\* SpecReset: populate calls within one day and a reset request at any
\* moment (the viewed and starred files are no part of the engine's state).
\* The calls are the ones the stream handler makes: not cache_only; no limit.
NextReset ==
  \/ \E a \in IsoKeys, b \in IsoKeys, ok \in BOOLEAN : PopulateStart(a, b, FALSE, 0, ok)
  \/ \E n \in 0..MaxIds : PopulateSearch(n)
  \/ PopulateSearchError
  \/ \E emails \in EmailLists(message_ids) : PopulateFetch(emails)
  \/ PopulateFetchError
  \/ PopulateFinish
  \/ PopulateReturn
  \/ \E cc \in BOOLEAN : ResetCaches(cc, FALSE, FALSE)

SpecReset == Init /\ [][NextReset]_vars

\* SpecPure: one direct call of a function of its arguments (and, for the
\* three readers, of the files' content), on arguments drawn from bounded
\* sets.
pureFrame == <<today, calls, storeVars, histStore, popVars, ioVars, srvVars>>

Apply(fn, input, output) ==
  /\ applied = NoCall
  /\ applied' = [fn |-> fn, input |-> input, output |-> output]
  /\ UNCHANGED pureFrame

\* Lists of dates, in any order and with repeats.
DateLists == UNION {[1..n -> 1..MaxPureDay] : n \in 0..MaxPureLen}

CollapseDateRanges(dates) ==
  Apply("collapse_date_ranges", dates, collapse_date_ranges(dates))

\* Lists of items; two items with one URL differ in their date.
UrlItems == [url : URLs \cup {NoUrl}, date : {strftime_slash(1), strftime_slash(2)}]
UrlItemLists == UNION {[1..n -> UrlItems] : n \in 0..MaxUrlItems}

DedupeByUrl(items) ==
  Apply("dedupe_by_url", items, dedupe_by_url(items))

\* Lists of items with parseable dates; two items with one URL and one date
\* differ in the date's format.
DateItems == [url : URLs \cup {NoUrl},
              date : {strftime_slash(1), strftime_slash(2), isoformat(1), isoformat(2)}]
DateItemLists == UNION {[1..n -> DateItems] : n \in 0..MaxItems}
Keeps == {"first", "last", "newest"}

DedupeByDate(items, keep) ==
  Apply("dedupe_by_date", [items |-> items, keep |-> keep], dedupe_by_date(items, keep))

\* The content a bucket can have: persist_release_metadata keys a release by
\* its date and passes every bucket through dedupe_by_url.
UrlLists == {l \in UNION {[1..n -> URLs \cup {NoUrl}] : n \in 0..MaxBucket} :
               \A i, j \in 1..Len(l) : i # j /\ l[i] = l[j] => l[i] = NoUrl}

CacheOf(shape) ==
  [k \in IsoKeys |->
     [i \in 1..Len(shape[k]) |-> construct_release(shape[k][i], strftime_slash(k.day))]]

GetFullReleaseCache(shape) ==
  Apply("get_full_release_cache", CacheOf(shape), get_full_release_cache(CacheOf(shape)))

\* A date-set file holding the set S.
DateSetFile(S) == _save_date_set(S, FALSE, NoDay)

ScrapeStatusForRange(scraped, empty, start, end, td) ==
  LET files == [cache |-> EmptyCache, empty |-> DateSetFile(empty),
                scrape |-> DateSetFile(scraped)]
  IN Apply("scrape_status_for_range",
           [files |-> files, start |-> start, end |-> end, today |-> td],
           [status |-> scrape_status_for_range(files.scrape, start, end, td),
            files |-> scrape_status_files(files.cache, files.empty, files.scrape, td)])

RangeBuckets == {<<>>, <<"a">>, <<NoUrl>>, <<"a", "b">>}

RangeRead(shape, scraped, empty, start, end) ==
  LET files == [cache |-> CacheOf(shape), empty |-> DateSetFile(empty),
                scrape |-> DateSetFile(scraped)]
  IN Apply("cached_releases_for_range",
           [files |-> files, start |-> start, end |-> end],
           cached_releases_for_range(files.cache, files.empty, files.scrape, start, end))

BuildEmbedUrl(item_id, is_track) ==
  Apply("build_embed_url", [item_id |-> item_id, is_track |-> is_track],
        build_embed_url(item_id, is_track))

\* Direct calls of the two range writers, on any pair of dates.
MarkRangeDirect(scraped, start, end, exclude_today, td) ==
  Apply("mark_date_range_scraped",
        [scrape |-> DateSetFile(scraped), start |-> start, end |-> end,
         exclude_today |-> exclude_today, today |-> td],
        [raised |-> range_call_raised(start, end),
         scrape |-> mark_date_range_scraped(DateSetFile(scraped), start, end,
                                            exclude_today, td)])

PersistEmptyDirect(scraped, empty, start, end, exclude_today, td) ==
  LET r == persist_empty_date_range(DateSetFile(empty), DateSetFile(scraped), start, end,
                                    exclude_today, td)
  IN Apply("persist_empty_date_range",
           [scrape |-> DateSetFile(scraped), empty |-> DateSetFile(empty),
            start |-> start, end |-> end, exclude_today |-> exclude_today, today |-> td],
           [raised |-> range_call_raised(start, end), scrape |-> r.scrape,
            empty |-> r.empty])

\* A direct mark_dates_not_scraped call, and the range read of the whole
\* calendar that follows it.
NotScrapedBuckets == {<<>>, <<"a">>}

MarkNotScrapedDirect(shape, scraped, empty, dates, td) ==
  LET scrape == mark_dates_not_scraped(DateSetFile(scraped), dates, td)
  IN Apply("mark_dates_not_scraped",
           [cache |-> CacheOf(shape), scrape |-> DateSetFile(scraped),
            empty |-> DateSetFile(empty), dates |-> dates, today |-> td],
           [scrape |-> scrape,
            read |-> cached_releases_for_range(CacheOf(shape), DateSetFile(empty), scrape,
                                               1, MaxDay)])

\* The viewed and the starred file: absent, or holding a set of release URLs.
MarkFiles == {<<>>} \cup {<<S>> : S \in SUBSET {"a", "b"}}

\* _safe_unlink: an existing file is removed unless the unlink raises.
_safe_unlink(file, path, unlinked, failing) ==
  IF path \in unlinked /\ file # <<>> /\ path \notin failing THEN <<>> ELSE file

\* POST /reset-caches on given viewed and starred files; failing: the paths
\* whose unlink raises.
ResetCachesDirect(viewed, starred, clear_cache, clear_viewed, clear_starred, failing) ==
  LET unlinked == reset_caches(clear_cache, clear_viewed, clear_starred)
  IN Apply("reset_caches_direct",
           [viewed |-> viewed, starred |-> starred, clear_cache |-> clear_cache,
            clear_viewed |-> clear_viewed, clear_starred |-> clear_starred],
           [viewed |-> _safe_unlink(viewed, "VIEWED_PATH", unlinked, failing),
            starred |-> _safe_unlink(starred, "STARRED_PATH", unlinked, failing),
            unlinked |-> unlinked])

NextPure ==
  \/ applied = NoCall /\ \E dates \in DateLists : CollapseDateRanges(dates)
  \/ applied = NoCall /\ \E items \in UrlItemLists : DedupeByUrl(items)
  \/ applied = NoCall /\ \E items \in DateItemLists, keep \in Keeps : DedupeByDate(items, keep)
  \/ applied = NoCall /\ \E shape \in [IsoKeys -> UrlLists] : GetFullReleaseCache(shape)
  \/ applied = NoCall /\ \E scraped \in SUBSET Days, empty \in SUBSET Days, s \in Days,
                            e \in Days, td \in Days :
                              ScrapeStatusForRange(scraped, empty, s, e, td)
  \/ applied = NoCall /\ \E shape \in [IsoKeys -> RangeBuckets], scraped \in SUBSET Days,
                            empty \in SUBSET Days, s \in Days, e \in Days :
                              s <= e /\ RangeRead(shape, scraped, empty, s, e)
  \/ applied = NoCall /\ \E item_id \in ItemIds, is_track \in BOOLEAN :
                            BuildEmbedUrl(item_id, is_track)
  \/ applied = NoCall /\ \E scraped \in SUBSET Days, s \in Days, e \in Days,
                            x \in BOOLEAN, td \in Days :
                              MarkRangeDirect(scraped, s, e, x, td)
  \/ applied = NoCall /\ \E scraped \in SUBSET Days, empty \in SUBSET Days, s \in Days,
                            e \in Days, x \in BOOLEAN, td \in Days :
                              PersistEmptyDirect(scraped, empty, s, e, x, td)
  \/ applied = NoCall /\ \E shape \in [IsoKeys -> NotScrapedBuckets],
                            scraped \in SUBSET Days, empty \in SUBSET Days,
                            dates \in SUBSET Days, td \in Days :
                              MarkNotScrapedDirect(shape, scraped, empty, dates, td)
  \/ applied = NoCall /\ \E viewed \in MarkFiles, starred \in MarkFiles, cc \in BOOLEAN,
                            cv \in BOOLEAN, cs \in BOOLEAN,
                            failing \in SUBSET {"VIEWED_PATH", "STARRED_PATH"} :
                              ResetCachesDirect(viewed, starred, cc, cv, cs, failing)

SpecPure == Init /\ [][NextPure]_vars

\* ---------------------------------------------------------------- claims
InCall == pc \in {"search", "fetch", "finish", "done", "failed"}

RequestedRange == DateRange(start_date, end_date)

\* The dates of the i-th window the call searched.
Queried(i) == DateRange(searched[i].start, searched[i].end)

\* The releases parsed from the windows completed so far in this call.
NewReleases == SubSeq(releases, Len(cached_releases) + 1, Len(releases))

InBucket(r) ==
  \E i \in 1..Len(release_cache[isoformat(_to_date(r.date))]) :
     release_cache[isoformat(_to_date(r.date))][i].url = r.url

\* C1: during a populate call, every searched window is made of dates that
\* cached_releases_for_range reported missing when the call began (none had
\* a non-empty bucket or was in the Scraped-Date or Empty-Date Set), no two
\* searched windows share a date, and once the call has completed every
\* missing date lies in exactly one searched window.
C1_SearchOnlyMissing ==
  InCall =>
    /\ SeqToSet(missing_dates) \cap known_at_start = {}
    /\ \A i \in 1..Len(searched) :
         /\ Queried(i) # {}
         /\ Queried(i) \subseteq SeqToSet(missing_dates)
         /\ Queried(i) \cap known_at_start = {}
    /\ \A i \in 1..Len(searched) : \A j \in 1..Len(searched) :
         i # j => Queried(i) \cap Queried(j) = {}
    /\ (pc = "done" /\ ~cache_only) =>
         /\ SeqToSet(missing_dates) = RequestedRange \ known_at_start
         /\ \A d \in SeqToSet(missing_dates) :
              Cardinality({i \in 1..Len(searched) : d \in Queried(i)}) = 1

\* Two windows around a resolved day were both searched.
C1_Witness ==
  /\ pc = "done"
  /\ Len(searched) = 2
  /\ known_at_start \cap RequestedRange # {}

\* C2 (as claimed): when a populate call is aborted by MaxResultsExceeded,
\* every release parsed from the windows completed earlier in the call
\* (other than one dated today, which persisting excludes) is in the bucket
\* of its date.
C2_EarlierWindowsPersisted ==
  (pc = "failed" /\ error = "max") =>
    \A i \in 1..Len(NewReleases) :
       _to_date(NewReleases[i].date) # today => InBucket(NewReleases[i])

\* C3 (as claimed): for every maxResults, 0 included, a search that returns
\* more ids than maxResults ends the call with MaxResultsExceeded carrying
\* maxResults and the number found, and no body is fetched for that window.
C3_EveryLimitEnforced ==
  \A i \in 1..Len(searched) :
     searched[i].found > max_results =>
       /\ pc = "failed" /\ error = "max"
       /\ exc = [max_results |-> max_results, found |-> searched[i].found]
       /\ <<searched[i].start, searched[i].end>> \notin SeqToSet(body_fetched)

\* C3 (amended): for every positive maxResults a search that returns more
\* ids than maxResults ends the call at once with MaxResultsExceeded
\* carrying maxResults and the number found, and no body is fetched for that
\* window; the exception is raised in no other case, and with maxResults = 0
\* no limit is enforced.
C3_PositiveLimitEnforced ==
  /\ \A i \in 1..Len(searched) :
       (max_results > 0 /\ searched[i].found > max_results) =>
         /\ i = Len(searched)
         /\ pc = "failed" /\ error = "max"
         /\ exc = [max_results |-> max_results, found |-> searched[i].found]
         /\ <<searched[i].start, searched[i].end>> \notin SeqToSet(body_fetched)
  /\ error = "max" =>
       /\ max_results > 0
       /\ searched # <<>>
       /\ searched[Len(searched)].found > max_results
  /\ \A i \in 1..Len(body_fetched) :
       \E j \in 1..Len(searched) :
          /\ body_fetched[i] = <<searched[j].start, searched[j].end>>
          /\ searched[j].found > 0
          /\ ~limit_exceeded(max_results, searched[j].found)

\* A search returned more ids than a positive limit.
C3_Witness ==
  /\ pc = "failed" /\ error = "max"
  /\ exc.max_results > 0
  /\ exc.found = exc.max_results + 1

\* C4: when populate aborts with MaxResultsExceeded at a window, no date of
\* that window or of a later one is in the Scraped-Date or Empty-Date Set,
\* no later window was searched or marked, and the marks written for the
\* earlier windows of the call are still in the files (every date but today:
\* scraped, and empty too where the window had no ids).
C4_AbortKeepsEarlierMarksOnly ==
  (pc = "failed" /\ error = "max") =>
    /\ Len(searched) = win
    /\ Len(marked) = win - 1
    /\ \A j \in win..Len(missing_ranges) :
         DateRange(missing_ranges[j][1], missing_ranges[j][2])
           \cap (Scraped \cup Empty) = {}
    /\ \A j \in 1..(win - 1) :
         /\ <<marked[j].start, marked[j].end>> = missing_ranges[j]
         /\ DateRange(marked[j].start, marked[j].end) \ {today} \subseteq Scraped
         /\ marked[j].kind = (IF searched[j].found = 0 THEN "empty" ELSE "scraped")
         /\ marked[j].kind = "empty" =>
              DateRange(marked[j].start, marked[j].end) \ {today} \subseteq Empty

\* The abort came at the second window, after the first was marked.
C4_Witness ==
  /\ pc = "failed" /\ error = "max"
  /\ win = 2
  /\ DateRange(marked[1].start, marked[1].end) \ {today} # {}

\* C5: starting from an empty store, when a populate call over a range that
\* does not contain today got zero ids for every window, every date of the
\* range is in the Empty-Date Set and in the Scraped-Date Set,
\* cached_releases_for_range over the same range returns no release and no
\* missing date, and so a second populate has no window to search.
ZeroIdsCall ==
  /\ pc = "done"
  /\ ~cache_only
  /\ store_was_empty
  /\ today \notin RequestedRange
  /\ searched # <<>>
  /\ \A i \in 1..Len(searched) : searched[i].found = 0

C5_ZeroIdsResolveRange ==
  ZeroIdsCall =>
    LET r == cached_releases_for_range(release_cache, empty_file, scrape_file,
                                       start_date, end_date)
    IN /\ RequestedRange \subseteq Empty
       /\ RequestedRange \subseteq Scraped
       /\ r.cached = <<>>
       /\ r.missing = <<>>
       /\ collapse_date_ranges(r.missing) = <<>>

C5_Witness ==
  /\ ZeroIdsCall
  /\ Cardinality(RequestedRange) >= 1

\* C6: after any sequence of mark_dates_scraped, mark_date_range_scraped,
\* mark_dates_not_scraped, persist_empty_date_range and
\* persist_release_metadata calls with any exclude_today, the Scraped-Date
\* Set read back from the file does not contain the day that was today when
\* the file was last written.
C6_TodayNeverInScrapedFile ==
  scrape_written_on # NoDay => scrape_written_on \notin Scraped

\* Today was recorded as empty with exclude_today = FALSE (it is in the
\* Empty-Date Set on the day the store was created), so the same call asked
\* for it to be marked scraped as well.
C6_Witness ==
  /\ today = FirstToday
  /\ scrape_written_on = today
  /\ today \in Empty
  /\ Scraped # {}

\* C7 (as claimed): whenever today lies in [start, end] and has no non-empty
\* bucket, cached_releases_for_range lists today among the missing dates,
\* whatever the stored Scraped-Date and Empty-Date Sets hold.
C7_TodayAlwaysMissing ==
  release_cache[isoformat(today)] = <<>> =>
    \A s \in 1..today : \A e \in today..MaxDay :
       today \in SeqToSet(cached_releases_for_range(release_cache, empty_file,
                                                    scrape_file, s, e).missing)

\* C8: after persist_release_metadata returns, every date other than today
\* that received a release in the call is absent from the Empty-Date Set and
\* present in the Scraped-Date Set; and in every state no date whose bucket
\* was written by persist_release_metadata after it was marked empty is in
\* the Empty-Date Set.
C8_DataClearsEmptyMark ==
  /\ \A d \in received \ {today} :
       /\ d \notin Empty
       /\ d \in Scraped
       /\ release_cache[isoformat(d)] # <<>>
  /\ fresh_data \cap Empty = {}

\* The last persist call stored a release for a day, not today, that was in
\* the Empty-Date Set when the call began.
C8_Witness ==
  /\ cleared \ {today} # {}
  /\ cleared \subseteq received

\* C9: after any sequence of persist_release_metadata and populate calls on
\* a store that started without duplicates, no bucket of the Release Cache
\* holds two releases with the same non-null URL.
C9_NoDuplicateUrlInBucket ==
  \A k \in IsoKeys :
     \A i \in 1..Len(release_cache[k]) : \A j \in 1..Len(release_cache[k]) :
        (i # j /\ release_cache[k][i].url # NoUrl) =>
           release_cache[k][i].url # release_cache[k][j].url

\* A populate call parsed a release whose URL was already in the bucket of
\* its date, and finished.
C9_Witness ==
  /\ pc = "done"
  /\ \E i \in 1..Len(NewReleases) :
        LET r == NewReleases[i]
        IN /\ r.url # NoUrl
           /\ _to_date(r.date) \in received
           /\ \E j \in 1..Len(cached_releases) :
                 /\ cached_releases[j].url = r.url
                 /\ _to_date(cached_releases[j].date) = _to_date(r.date)

\* C10: every release in the bucket of day D has the calendar date D, and for
\* every start <= end cached_releases_for_range(start, end) returns only
\* releases dated within [start, end].
C10_BucketIsReleaseDate ==
  /\ \A k \in IsoKeys :
        \A i \in 1..Len(release_cache[k]) :
           _to_date(release_cache[k][i].date) = k.day
  /\ \A s \in Days : \A e \in s..MaxDay :
        LET cached == cached_releases_for_range(release_cache, empty_file,
                                                scrape_file, s, e).cached
        IN \A i \in 1..Len(cached) : _to_date(cached[i].date) \in DateRange(s, e)

\* A populate call stored a release under a day outside the range it was
\* asked to populate.
C10_Witness ==
  /\ pc = "done"
  /\ ~cache_only
  /\ \E d \in received \ RequestedRange : release_cache[isoformat(d)] # <<>>

\* C13 (as claimed): when the requested range has no missing date, the
\* populate call makes no call to gmail_authenticate, search_messages or
\* get_messages.
C13_NoExternalCallWhenResolved ==
  (InCall /\ store_read /\ missing_dates = <<>>) =>
    /\ auth_calls = <<>>
    /\ searched = <<>>
    /\ body_fetched = <<>>

\* C14: a populate call with start > end fails with the invalid-range error
\* before it reads or writes a store and before it calls gmail_authenticate,
\* search_messages or get_messages.
C14_InvalidRangeBeforeIO ==
  (InCall /\ start_date > end_date) =>
    /\ pc = "failed" /\ error = "range"
    /\ ~store_read
    /\ StoreFiles = store_at_start
    /\ auth_calls = <<>>
    /\ searched = <<>>
    /\ body_fetched = <<>>

\* An inverted range was rejected while the store held resolved dates.
C14_Witness ==
  /\ pc = "failed" /\ error = "range"
  /\ start_date > end_date
  /\ scrape_file # <<>>

\* C15: when gmail_authenticate fails during populate the call ends with
\* that error, gmail_authenticate was called once only, nothing was searched
\* or fetched, and the three files are as they were when the call began.
C15_AuthFailureIsFatal ==
  /\ Len(auth_calls) <= 1
  /\ (InCall /\ auth_calls = <<FALSE>>) =>
       /\ pc = "failed" /\ error = "auth"
       /\ searched = <<>>
       /\ body_fetched = <<>>
       /\ StoreFiles = store_at_start
  /\ error = "auth" => auth_calls = <<FALSE>>

\* Authentication failed on a call that had windows to search and a store
\* that was not empty.
C15_Witness ==
  /\ pc = "failed" /\ error = "auth"
  /\ missing_ranges # <<>>
  /\ store_at_start # NoFiles

\* C18 (as claimed): a populate call over a range whose dates are all
\* resolved leaves every bucket of the Release Cache as it was, whatever
\* the cache holds, releases without URL included.
C18_RepeatedRunAddsNothing ==
  (pc = "done" /\ missing_dates = <<>>) =>
    release_cache = store_at_start.cache

\* C16 (as claimed): a write of the Release Cache, the Empty-Date Set or the
\* Scraped-Date Set whose temporary file vanished before the replace step
\* does not fail, and the destination file ends with the new content.
C16_WriteSurvivesLostTmp ==
  tmp_lost_write.file # "none" =>
    /\ ~tmp_lost_write.raised
    /\ tmp_lost_write.landed

\* C17: loading a store file that is missing, holds malformed JSON or holds
\* JSON of the wrong top-level type never raises and yields the empty store,
\* so the operations that follow run on an empty store.
C17_DamagedFileLoadsEmpty ==
  /\ ~last_load.raised
  /\ last_load.file # "none" => last_load.empty
  /\ (last_load.file = "empty" /\ calls = 1) => Empty = {}
  /\ (last_load.file = "scrape" /\ calls = 1) => Scraped = {}
  /\ (last_load.file = "cache" /\ calls = 1) => release_cache = EmptyCache

\* A scrape-status file holding malformed JSON was loaded, and an operation
\* wrote the file afterwards.
C17_Witness ==
  /\ last_load.file = "scrape"
  /\ last_load.kind = "malformed"
  /\ Scraped # {}

\* C19: no step of persist_release_metadata or of a populate call, finished
\* or aborted, removes or alters a stored release: every bucket before the
\* step is a prefix of the same bucket after it.
C19_ReleasesNeverDeleted ==
  [][\A k \in IsoKeys :
       /\ Len(release_cache[k]) <= Len(release_cache'[k])
       /\ SubSeq(release_cache'[k], 1, Len(release_cache[k])) = release_cache[k]]_vars

\* A populate call that parsed a release finished with the bucket of that
\* release still holding, first, a release with the same URL stored earlier
\* in another date format.
C19_Witness ==
  /\ pc = "done"
  /\ \E i \in 1..Len(NewReleases) :
        LET r == NewReleases[i]
            bucket == release_cache[isoformat(_to_date(r.date))]
        IN /\ r.url # NoUrl
           /\ _to_date(r.date) # today
           /\ bucket # <<>>
           /\ bucket[1].url = r.url
           /\ bucket[1].date # r.date

\* C20: a cached_releases_for_range call leaves the Release Cache, the
\* Empty-Date Set and the Scraped-Date Set files as they were.
C20_RangeReadWritesNothing ==
  [][reads' # reads =>
       /\ release_cache' = release_cache
       /\ empty_file' = empty_file
       /\ scrape_file' = scrape_file]_vars

\* A range read skipped a day that is in the Empty-Date Set only, so it had
\* merged the empty dates into its scraped set.
C20_Witness ==
  /\ reads >= 1
  /\ \E d \in Empty \ Scraped :
        /\ d \in DateRange(range_result.start, range_result.end)
        /\ d \notin SeqToSet(range_result.missing)
        /\ release_cache[isoformat(d)] = <<>>

\* The populate executions running now.
Running == {r \in Requests : worker[r] = "running"}

\* C11 (as claimed): under every interleaving of populate requests, client
\* disconnects and worker completions, at most one execution of the
\* populate worker is running.
C11_AtMostOneWorker ==
  Cardinality(Running) <= 1

\* C12: a populate request handled while the lock is held is answered in
\* that same step, with the already-running error when its arguments are
\* valid; it starts no worker, changes no store file and leaves the lock
\* held by the request that holds it.  A request is only ever answered
\* already-running when the lock was held.
C12_SecondRequestFailsFast ==
  [][\A r \in Requests :
       /\ (request[r] = "none" /\ request'[r] # "none" /\ POPULATE_LOCK) =>
            /\ request'[r] \in {"rejected", "invalid"}
            /\ worker' = worker
            /\ POPULATE_LOCK' /\ lock_holder' = lock_holder
            /\ release_cache' = release_cache
            /\ empty_file' = empty_file
            /\ scrape_file' = scrape_file
       /\ (request[r] # "rejected" /\ request'[r] = "rejected") =>
            POPULATE_LOCK /\ lock_holder # r]_vars

\* A request was rejected while the worker of the request holding the lock
\* was running and had written to the store.
C12_Witness ==
  \E r \in Requests :
     /\ request[r] = "rejected"
     /\ lock_holder \in Requests \ {r}
     /\ worker[lock_holder] = "running"
     /\ scrape_file # <<>>


\* ---------------------------------------------------------------- C21
\* The days the ranges of a collapse_date_ranges result cover.
Covered(ranges) == UNION {ranges[i][1]..ranges[i][2] : i \in 1..Len(ranges)}

\* C21: for every list of dates (any order, repeats allowed)
\* collapse_date_ranges returns inclusive ranges in ascending order, any two
\* neighbours separated by at least one absent day, whose union is exactly
\* the set of the input dates, as many ranges as the set has maximal runs;
\* the empty list gives the empty list; collapsing the covered dates again
\* gives the same ranges.
C21_CollapseIsExactAndMinimal ==
  applied.fn = "collapse_date_ranges" =>
    LET dates == applied.input
        out == applied.output
        S == SeqToSet(dates)
    IN /\ \A i \in 1..Len(out) : out[i][1] <= out[i][2]
       /\ \A i \in 1..(Len(out) - 1) : out[i][2] + 1 < out[i + 1][1]
       /\ Covered(out) = S
       /\ Len(out) = Cardinality({d \in S : d - 1 \notin S})
       /\ (dates = <<>> => out = <<>>)
       /\ collapse_date_ranges(sorted(Covered(out))) = out

\* A list out of order and with a repeat collapses to a range of two days
\* and a single day.
C21_Witness ==
  /\ applied.fn = "collapse_date_ranges"
  /\ applied.input = <<4, 1, 2, 1>>
  /\ applied.output = << <<1, 2>>, <<4, 4>> >>

\* ---------------------------------------------------------------- C22
\* The items of a list at the positions I, in the list's order.
SelectIdx(items, I) == [k \in 1..Cardinality(I) |-> items[sorted(I)[k]]]

\* The positions of the items without a URL and of the first item of each URL.
FirstOfUrl(items) ==
  {i \in 1..Len(items) :
     items[i].url = NoUrl \/ \A j \in 1..(i - 1) : items[j].url # items[i].url}

\* C22: for every list of items dedupe_by_url returns the items without a
\* URL and the first item of each URL, in the order of the input, and nothing
\* else; applying it to its own result changes nothing.
C22_DedupeByUrlKeepsFirst ==
  applied.fn = "dedupe_by_url" =>
    /\ applied.output = SelectIdx(applied.input, FirstOfUrl(applied.input))
    /\ dedupe_by_url(applied.output) = applied.output

\* A second item of a URL is dropped between two items without a URL, which
\* both stay.
C22_Witness ==
  /\ applied.fn = "dedupe_by_url"
  /\ applied.input = << construct_release(NoUrl, strftime_slash(1)),
                        construct_release("a", strftime_slash(1)),
                        construct_release("a", strftime_slash(2)),
                        construct_release(NoUrl, strftime_slash(1)) >>
  /\ applied.output = << construct_release(NoUrl, strftime_slash(1)),
                         construct_release("a", strftime_slash(1)),
                         construct_release(NoUrl, strftime_slash(1)) >>

\* ---------------------------------------------------------------- C23
\* The positions of the items of a list that carry the URL u.
WithUrl(items, u) == {i \in 1..Len(items) : items[i].url = u}

\* The item dedupe_by_date is to keep for the URL u: among the items of the
\* greatest (keep = "last") or smallest (keep = "first") date, the one seen
\* latest.
Chosen(items, keep, u) ==
  LET best == {i \in WithUrl(items, u) :
                 \A j \in WithUrl(items, u) :
                   IF keep = "last"
                   THEN _parse_date(items[i].date) >= _parse_date(items[j].date)
                   ELSE _parse_date(items[i].date) <= _parse_date(items[j].date)}
  IN items[CHOOSE i \in best : \A j \in best : j <= i]

\* C23: for every list of items with parseable dates dedupe_by_date returns
\* exactly one item per URL, the one of the greatest date for keep = "last"
\* and of the smallest date for keep = "first", among equal such dates the
\* one seen latest; every item without a URL is retained; any other value of
\* keep raises an error and returns nothing.
C23_DedupeByDateKeepsExtreme ==
  applied.fn = "dedupe_by_date" =>
    LET items == applied.input.items
        keep == applied.input.keep
        out == applied.output
    IN IF keep \notin {"first", "last"}
       THEN out.raised /\ out.items = <<>>
       ELSE /\ ~out.raised
            /\ \A u \in URLs :
                 IF WithUrl(items, u) = {}
                 THEN WithUrl(out.items, u) = {}
                 ELSE /\ Cardinality(WithUrl(out.items, u)) = 1
                      /\ \A i \in WithUrl(out.items, u) :
                           out.items[i] = Chosen(items, keep, u)
            /\ SelectIdx(out.items, WithUrl(out.items, NoUrl))
                 = SelectIdx(items, WithUrl(items, NoUrl))

\* keep = "first" with two items of the smallest date: the later one is kept.
C23_Witness ==
  /\ applied.fn = "dedupe_by_date"
  /\ applied.input.keep = "first"
  /\ applied.input.items = << construct_release("a", strftime_slash(2)),
                              construct_release("a", strftime_slash(1)),
                              construct_release("a", isoformat(1)) >>
  /\ applied.output = [raised |-> FALSE,
                       items |-> << construct_release("a", isoformat(1)) >>]

\* ---------------------------------------------------------------- C24
\* The buckets of a cache file from day d on, one after the other.
RECURSIVE BucketsFrom(_, _)
BucketsFrom(cache, d) ==
  IF d > MaxDay THEN <<>> ELSE cache[isoformat(d)] \o BucketsFrom(cache, d + 1)

\* C24: get_full_release_cache returns the buckets one after the other in
\* ascending date order, each in its insertion order, without the later
\* occurrences of a URL: every URL appears at most once, as its occurrence in
\* the earliest bucket, and every release without a URL is returned.
C24_FullCacheFlattenedAscending ==
  applied.fn = "get_full_release_cache" =>
    LET flat == BucketsFrom(applied.input, 1)
        out == applied.output
    IN /\ out = SelectIdx(flat, FirstOfUrl(flat))
       /\ \A u \in URLs : Cardinality(WithUrl(out, u)) <= 1
       /\ \A i, j \in 1..Len(out) :
            i < j => _to_date(out[i].date) <= _to_date(out[j].date)
       /\ Cardinality(WithUrl(out, NoUrl)) = Cardinality(WithUrl(flat, NoUrl))

\* One URL in the buckets of day 1 and day 3: the release of day 1 is the
\* one returned, after it the releases of day 2 and day 3 without a URL.
C24_Witness ==
  /\ applied.fn = "get_full_release_cache"
  /\ applied.input[isoformat(1)] = << construct_release("a", strftime_slash(1)) >>
  /\ applied.input[isoformat(2)] = << construct_release(NoUrl, strftime_slash(2)) >>
  /\ applied.input[isoformat(3)] = << construct_release("a", strftime_slash(3)),
                                      construct_release(NoUrl, strftime_slash(3)) >>
  /\ applied.output = << construct_release("a", strftime_slash(1)),
                         construct_release(NoUrl, strftime_slash(2)),
                         construct_release(NoUrl, strftime_slash(3)) >>

\* ---------------------------------------------------------------- C25
\* C25: scrape_status_for_range(start, end) returns one entry per date of the
\* inclusive range and no other; the entry is true exactly when the date is
\* in the stored scraped set and is not today, so a date that is only in the
\* empty-date set is false; the three files are as they were.
C25_StatusIsScrapedAndNotToday ==
  applied.fn = "scrape_status_for_range" =>
    LET in == applied.input
        status == applied.output.status
    IN /\ DOMAIN status = {isoformat(d) : d \in in.start..in.end}
       /\ \A d \in in.start..in.end :
            status[isoformat(d)] <=>
              (d \in _load_date_set(in.files.scrape) /\ d # in.today)
       /\ \A d \in in.start..in.end :
            d \in _load_date_set(in.files.empty) \ _load_date_set(in.files.scrape)
              => ~status[isoformat(d)]
       /\ applied.output.files = in.files

\* Day 1 is scraped, day 2 is scraped and today, day 3 is only in the
\* empty-date set: true, false, false.
C25_Witness ==
  /\ applied.fn = "scrape_status_for_range"
  /\ applied.input.today = 2
  /\ applied.input.start = 1 /\ applied.input.end = 3
  /\ _load_date_set(applied.input.files.scrape) = {1, 2}
  /\ _load_date_set(applied.input.files.empty) = {3}
  /\ applied.output.status[isoformat(1)]
  /\ ~applied.output.status[isoformat(2)]
  /\ ~applied.output.status[isoformat(3)]

RECURSIVE BucketsBetween(_, _, _)
BucketsBetween(cache, d, end) ==
  IF d > end THEN <<>>
  ELSE cache[isoformat(d)] \o BucketsBetween(cache, d + 1, end)

\* C29: for every content of the three files and every range with
\* start <= end, cached_releases_for_range puts each date of the range in
\* exactly one of three cases: a date with a non-empty bucket contributes its
\* releases and is not missing; a date without one that is in neither the
\* scraped nor the empty-date set is missing; any other date contributes
\* nothing.  The missing dates are ascending without repeats, and the
\* releases returned hold each URL once.
C29_RangeReadClassifiesEachDate ==
  applied.fn = "cached_releases_for_range" =>
    LET in == applied.input
        out == applied.output
        resolved == _load_date_set(in.files.scrape) \cup _load_date_set(in.files.empty)
        with_data == {d \in in.start..in.end : in.files.cache[isoformat(d)] # <<>>}
        unknown == {d \in in.start..in.end : d \notin with_data /\ d \notin resolved}
        flat == BucketsBetween(in.files.cache, in.start, in.end)
    IN /\ out.missing = sorted(unknown)
       /\ SeqToSet(out.missing) \cap with_data = {}
       /\ out.cached = SelectIdx(flat, FirstOfUrl(flat))
       /\ \A d \in with_data :
            \A i \in 1..Len(in.files.cache[isoformat(d)]) :
              LET r == in.files.cache[isoformat(d)][i]
              IN IF r.url = NoUrl
                 THEN \E j \in 1..Len(out.cached) : out.cached[j] = r
                 ELSE \E j \in 1..Len(out.cached) : out.cached[j].url = r.url
       /\ \A j \in 1..Len(out.cached) : _to_date(out.cached[j].date) \in with_data
       /\ \A u \in URLs : Cardinality(WithUrl(out.cached, u)) <= 1

\* The three cases in one read: day 1 has a bucket, day 2 is only in the
\* empty-date set, day 3 is in no set.
C29_Witness ==
  /\ applied.fn = "cached_releases_for_range"
  /\ applied.input.start = 1 /\ applied.input.end = 3
  /\ applied.input.files.cache[isoformat(1)] = << construct_release("a", strftime_slash(1)) >>
  /\ applied.input.files.cache[isoformat(2)] = <<>>
  /\ applied.input.files.cache[isoformat(3)] = <<>>
  /\ _load_date_set(applied.input.files.empty) = {2}
  /\ _load_date_set(applied.input.files.scrape) = {}
  /\ applied.output.cached = << construct_release("a", strftime_slash(1)) >>
  /\ applied.output.missing = <<3>>

\* ---------------------------------------------------------------- C27
\* cached_releases_for_range does not report the day d missing.
Resolved(d) ==
  \/ release_cache[isoformat(d)] # <<>>
  \/ d \in Scraped
  \/ d \in Empty

\* The release r is in the cache: under its URL in some bucket, or, without
\* a URL, in the bucket of its date.
InCache(r) ==
  IF r.url = NoUrl
  THEN \E i \in 1..Len(release_cache[isoformat(_to_date(r.date))]) :
          release_cache[isoformat(_to_date(r.date))][i] = r
  ELSE \E k \in IsoKeys : \E i \in 1..Len(release_cache[k]) :
          release_cache[k][i].url = r.url

\* C27 (as claimed): when a populate call has been aborted, by
\* MaxResultsExceeded, a search or fetch error or an authentication failure,
\* every release the call fetched whose date is treated as resolved (and is
\* not today, which persisting excludes) is in the cache: no date is left
\* resolved while a release fetched for it was discarded.
C27_ResolvedDatesHaveTheirReleases ==
  pc = "failed" =>
    \A i \in 1..Len(NewReleases) :
       LET d == _to_date(NewReleases[i].date)
       IN (d # today /\ Resolved(d)) => InCache(NewReleases[i])

\* ---------------------------------------------------------------- C28
\* C28 (as claimed): a past date that a populate call adds to the scraped set
\* lay inside a window the call queried the external source for; the date of
\* a release alone does not make a date scraped.
C28_ScrapedOnlyIfQueried ==
  InCall =>
    \A d \in Scraped \ _load_date_set(store_at_start.scrape) :
       d < today => \E i \in 1..Len(searched) : d \in Queried(i)

\* ---------------------------------------------------------------- C30
\* The releases a finished populate call handed to persist_release_metadata.
Incoming == _dedupe_by_date(releases, "last")

\* The bucket the release r is keyed to, as it was when the call began.
BucketAtStart(r) == store_at_start.cache[isoformat(_to_date(r.date))]

\* C30: persist_release_metadata never replaces a stored entry.  When a
\* populate call has finished, every release it handed over whose URL was
\* already in the bucket of its date left that bucket's entry as it was, in
\* its place, and was not added beside it, also when the release handed over
\* is the one _dedupe_by_date(keep = "last") chose.
C30_ExistingEntryWins ==
  pc = "done" =>
    \A i \in 1..Len(Incoming) :
       LET r == Incoming[i]
           bucket == release_cache[isoformat(_to_date(r.date))]
       IN (r.url # NoUrl /\ _to_date(r.date) # today) =>
            \A j \in 1..Len(BucketAtStart(r)) :
               BucketAtStart(r)[j].url = r.url =>
                 /\ bucket[j] = BucketAtStart(r)[j]
                 /\ WithUrl(bucket, r.url) = {j}

\* _dedupe_by_date chose, between the stored release and a fetched one of the
\* same URL and day written differently, the fetched one; the bucket still
\* holds the stored one and not the fetched one.
C30_Witness ==
  /\ pc = "done"
  /\ \E i \in 1..Len(Incoming) :
        LET r == Incoming[i]
            bucket == release_cache[isoformat(_to_date(r.date))]
        IN /\ r.url # NoUrl
           /\ _to_date(r.date) # today
           /\ Cardinality(WithUrl(releases, r.url)) >= 2
           /\ \E j \in 1..Len(BucketAtStart(r)) :
                 /\ BucketAtStart(r)[j].url = r.url
                 /\ BucketAtStart(r)[j] # r
                 /\ bucket[j] = BucketAtStart(r)[j]
           /\ \A j \in 1..Len(bucket) : bucket[j] # r

\* ---------------------------------------------------------------- C31
\* C31 (as claimed): duplicate URLs within a bucket are resolved
\* last-merge-wins.  When a populate call has finished, every release it
\* handed to persist_release_metadata (with a URL, not dated today) is in the
\* bucket of its date as handed over, also when that bucket already held a
\* release of the same URL from an earlier persist call.
C31_LastMergeWins ==
  pc = "done" =>
    \A i \in 1..Len(Incoming) :
       LET r == Incoming[i]
           bucket == release_cache[isoformat(_to_date(r.date))]
       IN (r.url # NoUrl /\ _to_date(r.date) # today) =>
            \E j \in 1..Len(bucket) : bucket[j] = r

\* ---------------------------------------------------------------- C32
\* The buckets that hold a release of the URL u.
BucketsOf(u) ==
  {k \in IsoKeys : \E i \in 1..Len(release_cache[k]) : release_cache[k][i].url = u}

\* C32 (as claimed): between and after populate calls no URL is stored in
\* more than one date bucket.
C32_UrlInOneBucket ==
  pc \in {"idle", "done"} => \A u \in URLs : Cardinality(BucketsOf(u)) <= 1

\* ---------------------------------------------------------------- C33
\* C33 (as claimed): mark_date_range_scraped and persist_empty_date_range
\* called with start > end report an error instead of returning without
\* effect and without a signal.
C33_ReversedRangeReported ==
  (/\ applied.fn \in {"mark_date_range_scraped", "persist_empty_date_range"}
   /\ applied.input.start > applied.input.end)
    => applied.output.raised

\* ---------------------------------------------------------------- C34
\* C34 (as claimed): an email in which the parser finds no release (the
\* subject lacks the prefix, or there is no release link: release_url is
\* None) adds no entry to the list populate accumulates and none to any
\* bucket.
C34_NoEntryWithoutRelease ==
  /\ \A i \in 1..Len(releases) : releases[i].url # NoUrl
  /\ \A k \in IsoKeys : \A i \in 1..Len(release_cache[k]) : release_cache[k][i].url # NoUrl

\* ---------------------------------------------------------------- C35
\* C35 (as claimed): every date in the empty-date file, other than today
\* (which the scrape-status file never keeps), is in the scrape-status file,
\* whatever store operations were called, with either value of exclude_today.
C35_EmptyImpliesScraped == (Empty \ {today}) \subseteq Scraped

\* ---------------------------------------------------------------- C36
\* C36 (as claimed): after mark_dates_not_scraped(D) every date of D that has
\* no non-empty bucket is reported missing by cached_releases_for_range, also
\* when the date is recorded as empty.
C36_NotScrapedMakesMissing ==
  applied.fn = "mark_dates_not_scraped" =>
    \A d \in applied.input.dates :
       applied.input.cache[isoformat(d)] = <<>>
         => d \in SeqToSet(applied.output.read.missing)

\* ---------------------------------------------------------------- C37
\* C37: every populate stream request that took the lock gives it back.
\* However its worker ends, the worker has put the closing None in the
\* queue; a started stream ends, with its done event or closed on a client
\* that has gone; and a request that holds the lock eventually holds it no
\* longer, also when its client has gone or never acts, so the lock is free
\* again and again.
C37_LockEventuallyReleased ==
  /\ [](\A r \in Requests :
          (worker[r] = "finished" /\ request[r] \in {"streaming", "closed", "done"})
            => queue_end[r])
  /\ \A r \in Requests : (request[r] = "streaming") ~> (request[r] \in {"done", "closed"})
  /\ \A r \in Requests : (lock_holder = r) ~> (lock_holder # r)
  /\ []<>(~POPULATE_LOCK)

\* A stream whose client went away was closed, its lock is free and its
\* worker has finished with the closing None put.
C37_Witness ==
  \E r \in Requests :
     /\ request[r] = "closed"
     /\ client[r] = "gone"
     /\ lock_holder # r
     /\ worker[r] = "finished"
     /\ queue_end[r]

\* ---------------------------------------------------------------- C38
\* C38 (as claimed): no date later than today is added to the scrape-status
\* file or the empty-date file by a populate call, whatever range it is
\* asked for.
C38_NoFutureDateResolved ==
  InCall =>
    /\ \A d \in Scraped \ _load_date_set(store_at_start.scrape) : d <= today
    /\ \A d \in Empty \ _load_date_set(store_at_start.empty) : d <= today

\* ---------------------------------------------------------------- C39
\* A reset with clear_cache was made while the current populate call was
\* between its range read and its persist.
ResetInFlight ==
  /\ applied.fn = "reset_caches"
  /\ applied.input.clear_cache
  /\ applied.input.call = calls
  /\ applied.input.pc \in {"search", "fetch", "finish"}

\* C39 (as claimed): when a populate call during which the cache was reset
\* has finished, the cache holds only releases that call fetched, none that
\* was cached before the reset.
C39_ResetNotUndone ==
  (pc = "done" /\ ResetInFlight) =>
    \A k \in IsoKeys : \A i \in 1..Len(release_cache[k]) :
       release_cache[k][i] \in SeqToSet(NewReleases)

\* The URLs a viewed or starred file records; an absent file records none.
Marks(file) == IF file = <<>> THEN {} ELSE file[1]

\* C40: reset-caches removes only what was asked for: clearing the viewed
\* state alone leaves the starred URLs as they were, clearing the starred
\* state alone leaves the viewed URLs as they were, and clearing the cache
\* alone leaves both as they were.
C40_ResetClearsOnlyAsked ==
  applied.fn = "reset_caches_direct" =>
    /\ (applied.input.clear_viewed /\ ~applied.input.clear_starred)
         => Marks(applied.output.starred) = Marks(applied.input.starred)
    /\ (applied.input.clear_starred /\ ~applied.input.clear_viewed)
         => Marks(applied.output.viewed) = Marks(applied.input.viewed)
    /\ (applied.input.clear_cache /\ ~applied.input.clear_viewed
          /\ ~applied.input.clear_starred)
         => /\ Marks(applied.output.viewed) = Marks(applied.input.viewed)
            /\ Marks(applied.output.starred) = Marks(applied.input.starred)

====
